---- MODULE Spec2Model ----
(***************************************************************************)
(* Model of the Warframe inventory service: the session-scoped inventory   *)
(* store (MemStorage / PostgresStorage), the job tracker, the ingestion,   *)
(* spreadsheet-load and price-refresh pipelines of routes.ts, and the      *)
(* spreadsheet export.                                                     *)
(*                                                                         *)
(* Strings are sequences of one-character strings.  JavaScript values that *)
(* may be absent are tagged records (Str, Num, Null, Undefined).           *)
(***************************************************************************)
EXTENDS Integers, Sequences, FiniteSets, TLC

VARIABLES
    backend,      \* "mem" (MemStorage) or "pg" (PostgresStorage), storage.ts:152
    inventory,    \* session id -> sequence of InventoryItem, in insertion order
    nextId,       \* stands for randomUUID(): the next fresh identifier
    jobs,         \* job id -> stored ProcessingJob record
    proc,         \* job id -> the state of the async function driving the job
    pending,      \* un-awaited storage calls in flight
    itemsCache,   \* the catalog cache of warframe-market.ts: normalized name -> item
    running,      \* job whose microtask chain holds the event loop, or 0
    faultsLeft,   \* storage calls that may still be made to throw
    lastSet,      \* history: item id -> quantity most recently written for it
    splitFileCache, \* routes.ts 17-22: session id -> the split files cached for it
    resp          \* the last reply of a request handler or store call

vars == <<backend, inventory, nextId, jobs, proc, pending, itemsCache, running,
          faultsLeft, lastSet, splitFileCache, resp>>

----------------------------------------------------------------------------
(* Bounds of the model *)

MaxQty == 2        \* largest quantity a request supplies
MaxJobs == 1       \* jobs started in a run
SeqJobs == 2       \* jobs started one after the other in a run of SpecSeq
MaxFaults == 1     \* storage calls that throw in one run
LiveFaults == 2    \* storage calls that throw in one run of SpecLive
RaceJobs == 2      \* jobs under way at the same time in a run of SpecRace
MaxLen == 6        \* longest text given to normalizeString in a run of SpecNormalize

Sessions == {"s1", "s2"}

----------------------------------------------------------------------------
(* JavaScript values *)

Null == [t |-> "null"]
Undefined == [t |-> "undefined"]
Str(s) == [t |-> "s", v |-> s]
Num(n) == [t |-> "n", v |-> n]
NaN == [t |-> "NaN"]

IsAbsent(x) == x.t \in {"null", "undefined"}

\* x ?? d
Coalesce(x, d) == IF IsAbsent(x) THEN d ELSE x

----------------------------------------------------------------------------
(* Strings *)

UpperLetters ==
    <<"A", "B", "C", "D", "E", "F", "G", "H", "I", "J", "K", "L", "M",
      "N", "O", "P", "Q", "R", "S", "T", "U", "V", "W", "X", "Y", "Z">>
LowerLetters ==
    <<"a", "b", "c", "d", "e", "f", "g", "h", "i", "j", "k", "l", "m",
      "n", "o", "p", "q", "r", "s", "t", "u", "v", "w", "x", "y", "z">>

IsSpace(c) == c = " "

\* String.prototype.toLowerCase, one character
LowerChar(c) ==
    IF \E i \in 1..Len(UpperLetters) : UpperLetters[i] = c
    THEN LowerLetters[CHOOSE i \in 1..Len(UpperLetters) : UpperLetters[i] = c]
    ELSE c

toLowerCase(s) == [i \in 1..Len(s) |-> LowerChar(s[i])]

RECURSIVE TrimStart(_)
TrimStart(s) ==
    IF s # <<>> /\ IsSpace(Head(s)) THEN TrimStart(Tail(s)) ELSE s

RECURSIVE TrimEnd(_)
TrimEnd(s) ==
    IF s # <<>> /\ IsSpace(s[Len(s)]) THEN TrimEnd(SubSeq(s, 1, Len(s) - 1)) ELSE s

\* String.prototype.trim
trim(s) == TrimEnd(TrimStart(s))

\* The item names of the model
FooBar == <<"F", "o", "o", ":", " ", "B", "a", "r">>          \* "Foo: Bar"
fooBarTight == <<"f", "o", "o", ":", "b", "a", "r">>           \* "foo:bar"
fooBarSpaced == <<" ", "f", "o", "o", ":", " ", "b", "a", "r">> \* " foo: bar"
Axi == <<"A", "x", "i">>                                        \* "Axi"

Names == {FooBar, fooBarTight, fooBarSpaced, Axi}
Zaw == <<"Z", "a", "w">>                                        \* "Zaw", not on the market
axiLower == <<"a", "x", "i">>                                   \* "axi"


----------------------------------------------------------------------------
(* Numbers and their text.  Every JavaScript number of the model is a      *)
(* whole count of hundredths, the precision getItemPrices rounds to: 1 is  *)
(* Whole(1), 12.5 is 1250.                                                 *)

Scale == 100

Whole(n) == n * Scale

IsWhole(h) == h % Scale = 0

DigitChars == <<"0", "1", "2", "3", "4", "5", "6", "7", "8", "9">>

IsDigit(c) == \E d \in 1..10 : DigitChars[d] = c

DigitValue(c) == (CHOOSE d \in 1..10 : DigitChars[d] = c) - 1

RECURSIVE NatToString(_)
NatToString(n) ==
    IF n < 10 THEN <<DigitChars[n + 1]>>
    ELSE NatToString(n \div 10) \o <<DigitChars[(n % 10) + 1]>>

\* Number.prototype.toString: "12", "12.5", "12.33", "-3"
NumberToString(h) ==
    LET a == IF h < 0 THEN -h ELSE h
        frac == a % Scale
        digits == IF frac = 0 THEN <<>>
                  ELSE IF frac % 10 = 0 THEN <<".", DigitChars[(frac \div 10) + 1]>>
                  ELSE <<".", DigitChars[(frac \div 10) + 1], DigitChars[(frac % 10) + 1]>>
    IN (IF h < 0 THEN <<"-">> ELSE <<>>) \o NatToString(a \div Scale) \o digits

\* The longest prefix of s made of digits
RECURSIVE DigitPrefix(_)
DigitPrefix(s) ==
    IF s # <<>> /\ IsDigit(Head(s)) THEN <<Head(s)>> \o DigitPrefix(Tail(s)) ELSE <<>>

RECURSIVE DigitsValue(_, _)
DigitsValue(ds, acc) ==
    IF ds = <<>> THEN acc ELSE DigitsValue(Tail(ds), acc * 10 + DigitValue(Head(ds)))

\* parseInt(s): leading white space, a sign, then digits; what follows the
\* digits is dropped; NaN without digits
parseInt(s) ==
    LET t == TrimStart(s)
        neg == t # <<>> /\ Head(t) = "-"
        u == IF t # <<>> /\ Head(t) \in {"-", "+"} THEN Tail(t) ELSE t
        ds == DigitPrefix(u)
    IN IF ds = <<>> THEN NaN
       ELSE Num(IF neg THEN -Whole(DigitsValue(ds, 0)) ELSE Whole(DigitsValue(ds, 0)))

\* The number a decimal text spells and how much of the text it takes:
\* digits, then "." and digits (two of them are kept)
DecimalPrefix(u) ==
    LET ds == DigitPrefix(u)
        rest == SubSeq(u, Len(ds) + 1, Len(u))
        fs == IF rest # <<>> /\ Head(rest) = "." THEN DigitPrefix(Tail(rest)) ELSE <<>>
        f1 == IF Len(fs) >= 1 THEN DigitValue(fs[1]) ELSE 0
        f2 == IF Len(fs) >= 2 THEN DigitValue(fs[2]) ELSE 0
    IN [digits |-> Len(ds) + Len(fs),
        taken |-> Len(ds) + (IF fs = <<>> THEN 0 ELSE 1 + Len(fs)),
        value |-> Whole(DigitsValue(ds, 0)) + f1 * 10 + f2]

\* parseFloat(s): the longest decimal prefix
parseFloat(s) ==
    LET t == TrimStart(s)
        neg == t # <<>> /\ Head(t) = "-"
        u == IF t # <<>> /\ Head(t) \in {"-", "+"} THEN Tail(t) ELSE t
        d == DecimalPrefix(u)
    IN IF d.digits = 0 THEN NaN ELSE Num(IF neg THEN -d.value ELSE d.value)

\* Number(s): the number the whole trimmed text spells, 0 for "", else NaN
Number(s) ==
    LET t == trim(s)
        neg == t # <<>> /\ Head(t) = "-"
        u == IF t # <<>> /\ Head(t) \in {"-", "+"} THEN Tail(t) ELSE t
        d == DecimalPrefix(u)
    IN IF t = <<>> THEN Num(0)
       ELSE IF d.digits = 0 \/ d.taken # Len(u) THEN NaN
       ELSE Num(IF neg THEN -d.value ELSE d.value)

\* Array.prototype.join(", ") of a list of numbers
RECURSIVE JoinNumbers(_)
JoinNumbers(list) ==
    IF list = <<>> THEN <<>>
    ELSE IF Len(list) = 1 THEN NumberToString(list[1])
    ELSE NumberToString(list[1]) \o <<",", " ">> \o JoinNumbers(Tail(list))

\* String.prototype.split(", ")
RECURSIVE SplitCommaSpace(_, _)
SplitCommaSpace(s, cur) ==
    IF s = <<>> THEN <<cur>>
    ELSE IF Len(s) >= 2 /\ s[1] = "," /\ s[2] = " "
         THEN <<cur>> \o SplitCommaSpace(SubSeq(s, 3, Len(s)), <<>>)
    ELSE SplitCommaSpace(Tail(s), Append(cur, Head(s)))

split(s) == SplitCommaSpace(s, <<>>)

\* text.split(', ').map(Number)
ParsePriceList(s) == [i \in 1..Len(split(s)) |-> Number(split(s)[i])]

----------------------------------------------------------------------------
(* Inventory store: MemStorage (part_008) and PostgresStorage (part_006) *)

NoItem == [id |-> 0]

\* MemStorage.getSessionInventory: the session's own map, created on demand
getSessionInventory(inv, sessionId) == inv[sessionId]

\* getInventoryItems(sessionId)
getInventoryItems(inv, sessionId) == getSessionInventory(inv, sessionId)

IndexOfId(items, id) ==
    IF \E i \in 1..Len(items) : items[i].id = id
    THEN CHOOSE i \in 1..Len(items) : items[i].id = id
    ELSE 0

\* getInventoryItem(sessionId, id): the item, or NoItem for undefined
getInventoryItem(inv, sessionId, id) ==
    LET items == getSessionInventory(inv, sessionId)
        i == IndexOfId(items, id)
    IN IF i = 0 THEN NoItem ELSE items[i]

\* The record createInventoryItem stores for insertItem under a fresh id
NewItem(id, insertItem) ==
    [id |-> id,
     name |-> insertItem.name,
     slug |-> insertItem.slug,
     quantity |-> Coalesce(insertItem.quantity, Num(Whole(1))).v,
     sellPrices |-> insertItem.sellPrices,
     buyPrices |-> insertItem.buyPrices,
     avgSell |-> Coalesce(insertItem.avgSell, Num(0)).v,
     avgBuy |-> Coalesce(insertItem.avgBuy, Num(0)).v,
     marketUrl |-> insertItem.marketUrl,
     category |-> insertItem.category]

\* createInventoryItem(sessionId, insertItem): the store afterwards
createInventoryItem(inv, sessionId, id, insertItem) ==
    [inv EXCEPT ![sessionId] = Append(@, NewItem(id, insertItem))]

\* A lookup of the id in every session's inventory
HasItemAnywhere(inv, sessionId, id) ==
    \E s \in Sessions : IndexOfId(getSessionInventory(inv, s), id) # 0

\* updateInventoryItemQuantity finds the id in the caller's session
HasItem(inv, sessionId, id) ==
    IndexOfId(getSessionInventory(inv, sessionId), id) # 0

\* updateInventoryItemQuantity(sessionId, {id, quantity}), id present
updateInventoryItemQuantity(inv, sessionId, id, quantity) ==
    LET i == IndexOfId(getSessionInventory(inv, sessionId), id)
    IN [inv EXCEPT ![sessionId][i].quantity = quantity]

RECURSIVE WithoutId(_, _)
WithoutId(items, id) ==
    IF items = <<>> THEN <<>>
    ELSE IF Head(items).id = id THEN WithoutId(Tail(items), id)
    ELSE <<Head(items)>> \o WithoutId(Tail(items), id)

\* A delete whose condition is the id alone, whatever the session
deleteById(inv, sessionId, id) == [s \in DOMAIN inv |-> WithoutId(inv[s], id)]

\* deleteInventoryItem(sessionId, id): a no-op when the id is absent
deleteInventoryItem(inv, sessionId, id) ==
    [inv EXCEPT ![sessionId] = WithoutId(@, id)]

\* MemStorage compares lowercased, trimmed names
MemNameMatches(itemName, name) ==
    trim(toLowerCase(itemName)) = trim(toLowerCase(name))

\* PostgresStorage compares with eq(inventoryItems.name, name)
PgNameMatches(itemName, name) == itemName = name

\* findInventoryItemByName(sessionId, name): the set of items the call may
\* return (NoItem for undefined).  MemStorage returns the first match in
\* insertion order; PostgresStorage returns one matching row (LIMIT 1 without
\* ORDER BY).
findInventoryItemByName(b, inv, sessionId, name) ==
    LET items == getSessionInventory(inv, sessionId)
        memHits == {i \in 1..Len(items) : MemNameMatches(items[i].name, name)}
        pgHits == {i \in 1..Len(items) : PgNameMatches(items[i].name, name)}
    IN IF b = "mem"
       THEN IF memHits = {} THEN {NoItem}
            ELSE {items[CHOOSE i \in memHits : \A k \in memHits : i <= k]}
       ELSE IF pgHits = {} THEN {NoItem}
            ELSE {items[i] : i \in pgHits}

\* A clear of one map shared by all sessions
clearEverySession(inv, sessionId) == [s \in DOMAIN inv |-> <<>>]

\* clearInventory(sessionId)
clearInventory(inv, sessionId) == [inv EXCEPT ![sessionId] = <<>>]

----------------------------------------------------------------------------
(* Request validation *)

\* updateQuantitySchema: z.object({id: z.string(), quantity: z.number().min(0)})
AcceptsAnyNumber(quantity) == TRUE

updateQuantitySchema(quantity) == quantity >= 0

----------------------------------------------------------------------------
(* Job tracker: processingJobs of MemStorage and PostgresStorage *)

\* A log line; the wall-clock prefix addProcessingLog adds is left out
Log(text, name, n, err) == [text |-> text, name |-> name, n |-> n, err |-> err]

\* createProcessingJob({status: "processing", totalImages, ...})
NewJob(totalImages) ==
    [status |-> "processing", totalImages |-> totalImages, processedImages |-> 0,
     totalItems |-> 0, processedItems |-> 0, logs |-> <<>>]

createProcessingJob(js, id, job) == [j \in DOMAIN js \cup {id} |-> IF j = id THEN job ELSE js[j]]

\* updateProcessingJob(id, updates): the given fields replace the stored ones
updateProcessingJob(js, id, updates) ==
    [js EXCEPT ![id] =
        [f \in DOMAIN js[id] |-> IF f \in DOMAIN updates THEN updates[f] ELSE js[id][f]]]

\* addProcessingLog(id, log) of MemStorage: read, push and store in one turn
addProcessingLog(js, id, log) == [js EXCEPT ![id].logs = Append(@, log)]

\* The UPDATE that ends PostgresStorage.addProcessingLog: the logs read
\* earlier, with the line pushed, replace the stored logs
writeProcessingLog(js, id, logsRead, log) == [js EXCEPT ![id].logs = Append(logsRead, log)]

----------------------------------------------------------------------------
(* Market adapter: services/warframe-market.ts *)

RECURSIVE SpacesAt(_, _)
\* how many white-space characters s holds from position i on
SpacesAt(s, i) == IF i <= Len(s) /\ IsSpace(s[i]) THEN 1 + SpacesAt(s, i + 1) ELSE 0

RECURSIVE SpacesBefore(_, _)
\* how many white-space characters s holds right before position i
SpacesBefore(s, i) == IF i > 1 /\ IsSpace(s[i - 1]) THEN 1 + SpacesBefore(s, i - 1) ELSE 0

FirstIndex(s, Test(_)) ==
    IF \E i \in 1..Len(s) : Test(s[i])
    THEN CHOOSE i \in 1..Len(s) : Test(s[i]) /\ \A k \in 1..(i - 1) : ~Test(s[k])
    ELSE 0

IsColon(c) == c = ":"

\* s.replace(/\s*:\s*/, ': '): the first colon only, with the space around it
ReplaceFirstColon(s) ==
    LET c == FirstIndex(s, IsColon)
        from == c - SpacesBefore(s, c)
        to == c + SpacesAt(s, c + 1)
    IN IF c = 0 THEN s
       ELSE SubSeq(s, 1, from - 1) \o <<":", " ">> \o SubSeq(s, to + 1, Len(s))

\* s.replace(/\s+/, ' '): the first run of white space only
ReplaceFirstSpaces(s) ==
    LET a == FirstIndex(s, IsSpace)
    IN IF a = 0 THEN s
       ELSE SubSeq(s, 1, a - 1) \o <<" ">> \o SubSeq(s, a + SpacesAt(s, a), Len(s))

\* normalizeString(text); the model's alphabet has no letter that the
\* replace of line 28 rewrites
normalizeString(text) ==
    IF text = <<>> THEN <<>>
    ELSE ReplaceFirstSpaces(ReplaceFirstColon(trim(toLowerCase(text))))

\* The catalog the bulk fetch returns: {slug, i18n.ru.name}
CatalogItems ==
    {[slug |-> <<"a", "x", "i">>, name |-> Axi],
     [slug |-> <<"f", "o", "o", "_", "b", "a", "r">>, name |-> FooBar]}

\* loadItemsCache, lines 47-53: the cache cleared and filled from the catalog
LoadedCache(items) ==
    [key \in {normalizeString(it.name) : it \in items} |->
        CHOOSE it \in items : normalizeString(it.name) = key]

\* A cache that a reader meets between clear() and the last set()
HalfLoaded(cache, items) ==
    IF items = {} THEN LoadedCache(items) ELSE LoadedCache({CHOOSE it \in items : TRUE})

\* loadItemsCache, lines 44-53, from the parsed answer on: no await stands
\* between itemsCache.clear() and the last itemsCache.set(), so the turn
\* that clears the cache leaves it filled from the answer
ReloadedCache(cache, items) == LoadedCache(items)

\* A lookup that makes a slug of any name
SlugOfAnyName(cache, itemName) == Str(toLowerCase(itemName))

\* findItemSlug(itemName): item?.slug || null
findItemSlug(cache, itemName) ==
    LET key == normalizeString(itemName)
    IN IF key \in DOMAIN cache THEN Str(cache[key].slug) ELSE Null

RECURSIVE Sum(_)
Sum(list) == IF list = <<>> THEN 0 ELSE Head(list) + Sum(Tail(list))

\* Math.round((sum / length) * 100) / 100; 0 for no prices
Average(prices) ==
    IF prices = <<>> THEN 0
    ELSE (2 * Sum(prices) + Len(prices)) \div (2 * Len(prices))

\* What the order endpoint may answer for a slug: data.data
OrderBooks ==
    {[sell |-> <<Whole(10), Whole(15)>>, buy |-> <<>>],
     [sell |-> <<>>, buy |-> <<Whole(7), Whole(8), Whole(8)>>]}

\* getItemPrices(slug) on an OK answer
ItemPrices(slug, orders) ==
    [t |-> "market",
     slug |-> slug,
     sellPrices |-> orders.sell,
     buyPrices |-> orders.buy,
     avgSell |-> Average(orders.sell),
     avgBuy |-> Average(orders.buy),
     marketUrl |-> <<"/">> \o slug]

\* getItemPrices(slug): the answers the call may return; null when the
\* request fails or the answer is not OK
getItemPrices(slug) == {ItemPrices(slug, o) : o \in OrderBooks} \cup {Null}

----------------------------------------------------------------------------
(* Recognition adapter: analyzeInventoryImage of gemini.ts (part_004) *)

\* String.prototype.split('|')
RECURSIVE SplitBar(_, _)
SplitBar(s, cur) ==
    IF s = <<>> THEN <<cur>>
    ELSE IF Head(s) = "|" THEN <<cur>> \o SplitBar(Tail(s), <<>>)
    ELSE SplitBar(Tail(s), Append(cur, Head(s)))

\* lines 608-613: one line "name|quantity" of the answer
RecognisedItem(item) ==
    LET parts == SplitBar(item, <<>>)
        name == trim(parts[1])
        quantityStr == IF Len(parts) >= 2 /\ trim(parts[2]) # <<>> THEN trim(parts[2])
                       ELSE <<"1">>
        parsed == parseInt(quantityStr)
        quantity == IF parsed = NaN \/ parsed = Num(0) THEN Whole(1) ELSE parsed.v
    IN [name |-> name, quantity |-> quantity]

IsBlankLine(line) == trim(line) = <<>>

HasName(item) == item.name # <<>>

RECURSIVE RecognisedItems(_)
RecognisedItems(lines) ==
    IF lines = <<>> THEN <<>>
    ELSE LET line == trim(Head(lines))
         IN IF IsBlankLine(line) \/ ~HasName(RecognisedItem(line))
            THEN RecognisedItems(Tail(lines))
            ELSE <<RecognisedItem(line)>> \o RecognisedItems(Tail(lines))

\* analyzeInventoryImage on an answer of the model, given as its lines
analyzeInventoryImage(lines) == RecognisedItems(lines)

\* "name|quantity" as the recognition model writes it
Line(name, quantity) == name \o <<"|">> \o NumberToString(quantity)

\* An uploaded image: what the recognition call answers for it, or that it throws
Image(originalname, lines) == [originalname |-> originalname, throws |-> FALSE, lines |-> lines]
BadImage(originalname) == [originalname |-> originalname, throws |-> TRUE, lines |-> <<>>]

----------------------------------------------------------------------------
(* Spreadsheets: the export of routes.ts lines 280-346, the rows read by   *)
(* loadExcelFileAsync (775-807) and updatePricesFromExcelAsync (474-488)   *)

\* The sentinel texts 'НЕ НАЙДЕН', 'Нет', 'N/A' and the mark '(Чертеж)',
\* spelled in the model's alphabet
SlugSentinel == <<"N", "E", " ", "N", "A", "I", "D", "E", "N">>
NoPricesSentinel == <<"N", "e", "t">>
NoUrlSentinel == <<"N", "/", "A">>
BlueprintMark == <<"(", "C", "h", "e", "r", "t", "e", "z", "h", ")">>

\* A cell is Null (no value), Num(h) or Str(s); a row is its cells 1..8
EmptyCell == Null

Columns == 8

BlankRow == [c \in 1..Columns |-> EmptyCell]

HasValues(row) == \E c \in 1..Len(row) : row[c] # EmptyCell

\* worksheet.actualRowCount: the rows that hold a value
actualRowCount(rows) == Cardinality({r \in 1..Len(rows) : HasValues(rows[r])})

\* cell.value?.toString()
CellText(cell) ==
    IF cell = EmptyCell THEN Undefined
    ELSE IF cell.t = "n" THEN Str(NumberToString(cell.v))
    ELSE cell

\* x is truthy, for x a string or absent
Truthy(x) == ~IsAbsent(x) /\ x.v # <<>>

\* x || d
Or(x, d) == IF Truthy(x) THEN x ELSE Str(d)

\* list?.join(', ') || 'Нет'
PricesCell(list) == Or(Str(JoinNumbers(list)), NoPricesSentinel)

HeaderRow ==
    <<Str(<<"N", "a", "m", "e">>), Str(<<"Q", "t", "y">>), Str(<<"S", "l", "u", "g">>),
      Str(<<"S", "e", "l", "l">>), Str(<<"B", "u", "y">>), Str(<<"A", "v", "g", "S">>),
      Str(<<"A", "v", "g", "B">>), Str(<<"U", "r", "l">>)>>

\* lines 301-310: the row added for an item; avgSell || 0 is avgSell, the
\* store keeping a number there
ExportRow(item) ==
    <<Str(item.name),
      Num(item.quantity),
      Or(item.slug, SlugSentinel),
      PricesCell(item.sellPrices),
      PricesCell(item.buyPrices),
      Num(item.avgSell),
      Num(item.avgBuy),
      Or(item.marketUrl, NoUrlSentinel)>>

\* The rows of the exported worksheet: the header, then one row per item
ExportRows(items) == <<HeaderRow>> \o [i \in 1..Len(items) |-> ExportRow(items[i])]

\* An uploaded workbook: unreadable, without a first worksheet, or its rows
Workbook(kind, rows) == [kind |-> kind, rows |-> rows]

\* itemName.includes('(Чертеж)')
Includes(s, part) ==
    \E a \in 1..(Len(s) - Len(part) + 1) : SubSeq(s, a, a + Len(part) - 1) = part

CategoryOf(itemName) ==
    IF Includes(itemName, BlueprintMark) THEN "Blueprints" ELSE "Prime parts"

\* lines 792-793: text && text !== 'Нет' ? text.split(', ').map(Number) : []
PricesOfCell(text) ==
    IF Truthy(text) /\ text.v # NoPricesSentinel
    THEN [i \in 1..Len(ParsePriceList(text.v)) |-> ParsePriceList(text.v)[i].v]
    ELSE <<>>

\* lines 777-798: the record a data row is inserted as
LoadedRow(row) ==
    LET itemName == CellText(row[1])
        slug == CellText(row[3])
        marketUrl == CellText(row[8])
    IN [name |-> itemName.v,
        slug |-> IF slug = Str(SlugSentinel) THEN Null ELSE slug,
        quantity |-> parseInt(Or(CellText(row[2]), <<"0">>).v),
        sellPrices |-> PricesOfCell(CellText(row[4])),
        buyPrices |-> PricesOfCell(CellText(row[5])),
        avgSell |-> parseFloat(Or(CellText(row[6]), <<"0">>).v),
        avgBuy |-> parseFloat(Or(CellText(row[7]), <<"0">>).v),
        marketUrl |-> IF marketUrl = Str(NoUrlSentinel) THEN Null ELSE marketUrl,
        category |-> CategoryOf(itemName.v)]

\* The rows eachRow visits and the callback goes on with: rows after the
\* first that hold a value and a name
DataRows(rows) ==
    SelectSeq([r \in 1..Len(rows) |-> [rowNumber |-> r, row |-> rows[r]]],
              LAMBDA e : e.rowNumber > 1 /\ HasValues(e.row) /\ Truthy(CellText(e.row[1])))

\* lines 477-486: the name and quantity updatePricesFromExcelAsync keeps of a row
PriceRow(row) ==
    [name |-> CellText(row[1]).v,
     quantity |-> parseInt(Or(CellText(row[2]), <<"1">>).v).v]

\* splitFileCache.get(sessionId) of a session without split files
NoSplitFiles == [lowCount |-> -1]

\* lines 574-578: headerRow.eachCell pushes the values of the cells that
\* hold one, so the copied header is the held values moved to the left
HeaderValues(rows) ==
    LET held == IF rows = <<>> THEN <<>>
                ELSE SelectSeq(rows[1], LAMBDA cell : cell # EmptyCell)
    IN [c \in 1..Columns |-> IF c <= Len(held) THEN held[c] ELSE EmptyCell]

\* lines 591-602: the first number of the price cell, 0 without one
FirstPrice(row) ==
    LET priceValue == row[4]
        priceStr == CellText(priceValue)
        priceMatch == IF Truthy(priceStr) /\ priceValue # Num(0)
                      THEN DigitPrefix(priceStr.v) ELSE <<>>
    IN IF priceMatch # <<>> THEN parseInt(priceMatch).v ELSE 0

\* lines 604-608: row.eachCell copies the held values to their columns
RowValues(row) == [c \in 1..Columns |-> IF row[c] # EmptyCell THEN row[c] ELSE EmptyCell]

\* The rows eachRow visits after the first (lines 588-589)
SplitRows(rows) ==
    SelectSeq([r \in 1..Len(rows) |-> [rowNumber |-> r, row |-> rows[r]]],
              LAMBDA e : e.rowNumber > 1 /\ HasValues(e.row))

\* A split that sends every row to the low worksheet
EveryRowLow(rows) ==
    [n \in 1..Len(SplitRows(rows)) |-> RowValues(SplitRows(rows)[n].row)]

\* lines 611-613: the rows added to the low worksheet
LowPriceRows(rows) ==
    LET low == SelectSeq(SplitRows(rows), LAMBDA e : FirstPrice(e.row) <= Whole(10))
    IN [n \in 1..Len(low) |-> RowValues(low[n].row)]

\* lines 614-616: the rows added to the high worksheet
HighPriceRows(rows) ==
    LET high == SelectSeq(SplitRows(rows), LAMBDA e : ~(FirstPrice(e.row) <= Whole(10)))
    IN [n \in 1..Len(high) |-> RowValues(high[n].row)]

\* lines 633-638: what the function caches for the session
SplitFiles(rows) ==
    [lowPriceFile |-> <<HeaderValues(rows)>> \o LowPriceRows(rows),
     highPriceFile |-> <<HeaderValues(rows)>> \o HighPriceRows(rows),
     lowCount |-> Len(LowPriceRows(rows)),
     highCount |-> Len(HighPriceRows(rows))]

----------------------------------------------------------------------------
(* The async functions of routes.ts: processImagesAsync (649-747),         *)
(* updatePricesFromExcelAsync (448-550), splitExcelByPriceAsync (552-647)  *)
(* and loadExcelFileAsync (749-819).                                       *)
(* A job's pc names the line of the call it awaits; a step is that call    *)
(* taking effect and the function running on to its next await.            *)

NoProc ==
    [kind |-> "none", session |-> "", mode |-> "", pc |-> "idle",
     files |-> <<>>, excelFile |-> Workbook("none", <<>>),
     i |-> 0, allItems |-> <<>>, itemCounts |-> <<>>, k |-> 0,
     processedCount |-> 0, existingItem |-> NoItem, slug |-> Null,
     marketData |-> Null, error |-> "", loadedCount |-> 0,
     logsRead |-> <<>>, readDone |-> FALSE,
     thrownAt |-> {}]     \* history: the lines whose call threw

\* The awaits that leave the event loop: the recognition request (661), the
\* price request (warframe-market.ts 70, awaited at 119), the workbook
\* reader (455, 559, 760), the workbook writer (629, 630) and the timer (810).  MemStorage's methods hold no
\* await, so a call of theirs takes effect at once and the awaiting function
\* resumes in a microtask, before any other request, timer or response.
RealAwaits == {"L661", "L119", "L455", "L559", "L629", "L630", "L760", "L810"}

\* Line 775 is no await: eachRow runs in the turn that line 770 resumes in
SameTurn == {"L775"}

\* The job that holds the event loop once job j stands at pc
Holder(j, pc) ==
    IF pc = "done" THEN 0
    ELSE IF pc \in SameTurn THEN j
    ELSE IF backend = "mem" /\ pc \notin RealAwaits THEN j
    ELSE 0

\* Job j may take a step
CanRun(j) == proc[j].pc \notin {"idle", "done"} /\ running \in {0, j}

\* A storage call of PostgresStorage may throw
MayThrow == backend = "pg" /\ faultsLeft > 0

StorageError == "storage error"

\* An addProcessingLog call made without await
LogCall(j, row, log) ==
    [op |-> "log", job |-> j, row |-> row, log |-> log, readDone |-> FALSE, logsRead |-> <<>>]

\* An updateProcessingJob call made without await
UpdateCall(j, updates) == [op |-> "update", job |-> j, updates |-> updates]

\* The .catch of the route that started job j (63-67, 95-99, 127-131,
\* 223-227, ...): status "failed" and the error line, neither awaited
CatchHandlerCalls(j, err) ==
    {UpdateCall(j, [status |-> "failed"]), LogCall(j, 0, Log("Error", <<>>, 0, err))}

\* The function of job j rejects with err
Escapes(j, err) ==
    /\ proc' = [proc EXCEPT ![j].pc = "done", ![j].error = err,
                            ![j].thrownAt = @ \cup {proc[j].pc}]
    /\ running' = 0
    /\ IF backend = "mem"
       THEN /\ jobs' = addProcessingLog(updateProcessingJob(jobs, j, [status |-> "failed"]),
                                        j, Log("Error", <<>>, 0, err))
            /\ UNCHANGED pending
       ELSE /\ pending' = pending \cup CatchHandlerCalls(j, err)
            /\ UNCHANGED jobs

\* Job j goes on as record p
Continues(j, p) ==
    /\ proc' = [proc EXCEPT ![j] = p]
    /\ running' = Holder(j, p.pc)

\* An aggregation that takes names that differ in case for one name
RECURSIVE AggregateAnyCase(_, _)
AggregateAnyCase(allItems, counts) ==
    IF allItems = <<>> THEN counts
    ELSE LET item == Head(allItems)
             at == {n \in 1..Len(counts) : toLowerCase(counts[n].name) = toLowerCase(item.name)}
         IN AggregateAnyCase(Tail(allItems),
                IF at = {}
                THEN Append(counts, [name |-> item.name, quantity |-> 0 + item.quantity])
                ELSE [counts EXCEPT ![CHOOSE n \in at : TRUE].quantity = @ + item.quantity])

\* lines 672-675: quantities summed per exact name, in order of first sight
RECURSIVE Aggregate(_, _)
Aggregate(allItems, counts) ==
    IF allItems = <<>> THEN counts
    ELSE LET item == Head(allItems)
             at == {n \in 1..Len(counts) : counts[n].name = item.name}
         IN Aggregate(Tail(allItems),
                IF at = {}
                THEN Append(counts, [name |-> item.name, quantity |-> 0 + item.quantity])
                ELSE [counts EXCEPT ![CHOOSE n \in at : TRUE].quantity = @ + item.quantity])

\* After image i: the next image, or the aggregation and line 677
NextImage(p) ==
    IF p.i < Len(p.files)
    THEN [p EXCEPT !.i = p.i + 1, !.pc = "L657"]
    ELSE [p EXCEPT !.itemCounts = Aggregate(p.allItems, <<>>), !.pc = "L677"]

\* After entry k of the item loop (685, 499): the next entry, or the
\* status write that follows the loop
NextItem(p) ==
    IF p.k < Len(p.itemCounts)
    THEN [p EXCEPT !.k = p.k + 1, !.pc = IF p.kind = "images" THEN "L689" ELSE "L502",
                   !.existingItem = NoItem, !.slug = Null, !.marketData = Null]
    ELSE [p EXCEPT !.pc = IF p.kind = "images" THEN "L745" ELSE "L543"]

\* The entry the item loop stands at
Entry(p) ==
    IF p.k \in 1..Len(p.itemCounts) THEN p.itemCounts[p.k]
    ELSE [name |-> <<>>, quantity |-> 0]

\* lines 474-488: the rows updatePricesFromExcelAsync keeps
OriginalData(rows) == [n \in 1..Len(DataRows(rows)) |-> PriceRow(DataRows(rows)[n].row)]

LogLines ==
    {"L650", "L657", "L665", "L667", "L682", "L697", "L704", "L721", "L734", "L741", "L746",
     "L449", "L452", "L464", "L495", "L518", "L533", "L539", "L544", "L547",
     "L553", "L556", "L626", "L641", "L644",
     "L750", "L753", "L757", "L813", "L816"}

\* The line the addProcessingLog call at p.pc appends
LogLine(p) ==
    CASE p.pc = "L650" -> Log("Starting image analysis...", <<>>, 0, "")
      [] p.pc = "L657" -> Log("Analyzing image", p.files[p.i].originalname, p.i, "")
      [] p.pc = "L665" -> Log("Found items in image", <<>>,
                              Len(analyzeInventoryImage(p.files[p.i].lines)), "")
      [] p.pc = "L667" -> Log("Error analyzing", p.files[p.i].originalname, 0, p.error)
      [] p.pc = "L682" -> Log("Processing unique items...", <<>>, Len(p.itemCounts), "")
      [] p.pc = "L697" -> Log("Updated quantity for (+)", Entry(p).name, Entry(p).quantity, "")
      [] p.pc = "L704" -> Log("Updated quantity for", Entry(p).name, Entry(p).quantity, "")
      [] p.pc = "L721" -> Log("Added new item", Entry(p).name, Entry(p).quantity, "")
      [] p.pc = "L734" -> Log("Added item (not found in market)", Entry(p).name,
                              Entry(p).quantity, "")
      [] p.pc = "L741" -> Log("Error processing", Entry(p).name, 0, p.error)
      [] p.pc = "L746" -> Log("Processing completed successfully!", <<>>, 0, "")
      [] p.pc = "L449" -> Log("Starting price update from Excel file...", <<>>, 0, "")
      [] p.pc = "L452" -> Log("Processing Excel file", <<>>, 0, "")
      [] p.pc = "L464" -> Log("Cleared existing inventory for price update", <<>>, 0, "")
      [] p.pc = "L495" -> Log("Found items for price update", <<>>, Len(p.itemCounts), "")
      [] p.pc = "L518" -> Log("Updated prices for", Entry(p).name, p.marketData.avgSell, "")
      [] p.pc = "L533" -> Log("Item not found in market", Entry(p).name, 0, "")
      [] p.pc = "L539" -> Log("Error processing", Entry(p).name, 0, p.error)
      [] p.pc = "L544" -> Log("Price update completed!", <<>>, p.processedCount, "")
      [] p.pc = "L547" -> Log("Error updating prices", <<>>, 0, p.error)
      [] p.pc = "L553" -> Log("Starting Excel split by price...", <<>>, 0, "")
      [] p.pc = "L556" -> Log("Processing Excel file", <<>>, 0, "")
      [] p.pc = "L626" -> Log("Split completed", <<>>, Len(LowPriceRows(p.excelFile.rows)), "")
      [] p.pc = "L641" -> Log("Excel split completed! Ready to download split files.",
                              <<>>, 0, "")
      [] p.pc = "L644" -> Log("Error splitting Excel", <<>>, 0, p.error)
      [] p.pc = "L750" -> Log("Loading Excel file into database...", <<>>, 0, "")
      [] p.pc = "L753" -> Log("Processing Excel file", <<>>, 0, "")
      [] p.pc = "L757" -> Log("Cleared existing inventory", <<>>, 0, "")
      [] p.pc = "L813" -> Log("Excel file loaded successfully!", <<>>, p.loadedCount, "")
      [] p.pc = "L816" -> Log("Error loading Excel file", <<>>, 0, p.error)

\* Where the function goes on after the log call at p.pc returns
AfterLog(p) ==
    CASE p.pc = "L650" -> [p EXCEPT !.i = 1, !.pc = "L657"]
      [] p.pc = "L657" -> [p EXCEPT !.pc = "L661"]
      [] p.pc \in {"L665", "L667"} -> NextImage(p)
      [] p.pc \in {"L682", "L741", "L495", "L539"} -> NextItem(p)
      [] p.pc \in {"L697", "L704", "L721", "L734"} ->
            [p EXCEPT !.processedCount = p.processedCount + 1, !.pc = "L739"]
      [] p.pc \in {"L746", "L544", "L641", "L813"} -> [p EXCEPT !.pc = "done"]
      [] p.pc = "L553" -> [p EXCEPT !.pc = "L556"]
      [] p.pc = "L556" -> [p EXCEPT !.pc = "L559"]
      [] p.pc = "L626" -> [p EXCEPT !.pc = "L629"]
      [] p.pc = "L644" -> [p EXCEPT !.pc = "L645"]
      [] p.pc = "L449" -> [p EXCEPT !.pc = "L452"]
      [] p.pc = "L452" -> [p EXCEPT !.pc = "L455"]
      [] p.pc = "L464" -> [p EXCEPT !.itemCounts = OriginalData(p.excelFile.rows),
                                    !.pc = "L490"]
      [] p.pc \in {"L518", "L533"} ->
            [p EXCEPT !.processedCount = p.processedCount + 1, !.pc = "L537"]
      [] p.pc = "L547" -> [p EXCEPT !.pc = "L548"]
      [] p.pc = "L750" -> [p EXCEPT !.pc = "L753"]
      [] p.pc = "L753" -> [p EXCEPT !.pc = "L756"]
      [] p.pc = "L757" -> [p EXCEPT !.pc = "L760"]
      [] p.pc = "L816" -> [p EXCEPT !.pc = "L817"]

UpdateLines == {"L664", "L677", "L739", "L745", "L490", "L537", "L543", "L548",
                "L621", "L640", "L645", "L770", "L812", "L817"}

\* The fields the updateProcessingJob call at p.pc writes
Updates(p) ==
    CASE p.pc = "L664" -> [processedImages |-> p.i]
      [] p.pc \in {"L677", "L490"} -> [totalItems |-> Len(p.itemCounts), processedItems |-> 0]
      [] p.pc \in {"L739", "L537"} -> [processedItems |-> p.processedCount]
      [] p.pc \in {"L745", "L543", "L640", "L812"} -> [status |-> "completed"]
      [] p.pc \in {"L548", "L645", "L817"} -> [status |-> "failed"]
      [] p.pc = "L621" -> [totalItems |-> Len(SplitRows(p.excelFile.rows)),
                           processedItems |-> Len(SplitRows(p.excelFile.rows))]
      [] p.pc = "L770" -> [totalItems |-> actualRowCount(p.excelFile.rows) - 1,
                           processedItems |-> 0]

\* Where the function goes on after the updateProcessingJob call at p.pc
AfterUpdate(p) ==
    CASE p.pc = "L664" -> [p EXCEPT !.pc = "L665"]
      [] p.pc = "L677" -> [p EXCEPT !.pc = "L682", !.k = 0]
      [] p.pc = "L490" -> [p EXCEPT !.pc = "L495", !.k = 0]
      [] p.pc \in {"L739", "L537"} -> NextItem(p)
      [] p.pc = "L745" -> [p EXCEPT !.pc = "L746"]
      [] p.pc = "L543" -> [p EXCEPT !.pc = "L544"]
      [] p.pc = "L812" -> [p EXCEPT !.pc = "L813"]
      [] p.pc \in {"L548", "L645", "L817"} -> [p EXCEPT !.pc = "done"]
      [] p.pc = "L621" -> [p EXCEPT !.pc = "L626"]
      [] p.pc = "L640" -> [p EXCEPT !.pc = "L641"]
      [] p.pc = "L770" -> [p EXCEPT !.pc = "L775"]

\* The try blocks: 659-668 around one image, 687-742 and 500-540 around one
\* item, 451-549, 555-646 and 752-818 around the spreadsheet functions' bodies
InImageTry == {"L661", "L664", "L665"}
InItemTry == {"L689", "L693", "L697", "L700", "L704", "L707", "L710", "L721", "L723",
              "L734", "L739"}
InPriceItemTry == {"L502", "L506", "L518", "L521", "L533", "L537"}
InPricesTry == {"L452", "L455", "L463", "L464", "L490", "L495", "L539", "L543", "L544"}
InSplitTry == {"L556", "L559", "L621", "L626", "L629", "L630", "L640", "L641"}
InLoadTry == {"L753", "L756", "L757", "L760", "L770", "L812", "L813"}

\* A function without a catch clause
NoCatch(kind, pc) == ""

\* A function whose only catch clause is the one around an image
ImageCatchOnly(kind, pc) == IF kind = "images" /\ pc \in InImageTry THEN "L667" ELSE ""

\* The catch clause that takes what the call at pc throws, "" for none
CatchOf(kind, pc) ==
    IF kind = "images" /\ pc \in InImageTry THEN "L667"
    ELSE IF kind = "images" /\ pc \in InItemTry THEN "L741"
    ELSE IF kind = "prices" /\ pc \in InPriceItemTry THEN "L539"
    ELSE IF kind = "prices" /\ pc \in InPricesTry THEN "L547"
    ELSE IF kind = "split" /\ pc \in InSplitTry THEN "L644"
    ELSE IF kind = "load" /\ pc \in InLoadTry THEN "L816"
    ELSE ""

\* The call job j awaits, standing as record p, throws err
Throws(j, p, err) ==
    IF CatchOf(p.kind, p.pc) # ""
    THEN /\ Continues(j, [p EXCEPT !.pc = CatchOf(p.kind, p.pc), !.error = err,
                                   !.readDone = FALSE, !.logsRead = <<>>,
                                   !.thrownAt = @ \cup {p.pc}])
         /\ UNCHANGED <<jobs, pending>>
    ELSE Escapes(j, err)

\* PostgresStorage.addProcessingLog reads the job, then writes its logs
\* back (118-130); the two are told apart while another call on the job is
\* in flight
ReadThenWrite(j) == backend = "pg" /\ \E op \in pending : op.job = j

\* An awaited addProcessingLog of job j's function
JobLog(j) ==
    LET p == proc[j] IN
    /\ CanRun(j) /\ p.pc \in LogLines
    /\ \E ok \in BOOLEAN :
        /\ ok \/ MayThrow
        /\ faultsLeft' = IF ok THEN faultsLeft ELSE faultsLeft - 1
        /\ IF ~ok
           THEN Throws(j, p, StorageError)
           ELSE IF ReadThenWrite(j) /\ ~p.readDone
           THEN /\ proc' = [proc EXCEPT ![j].readDone = TRUE, ![j].logsRead = jobs[j].logs]
                /\ UNCHANGED <<jobs, pending, running>>
           ELSE /\ jobs' = IF p.readDone
                           THEN writeProcessingLog(jobs, j, p.logsRead, LogLine(p))
                           ELSE addProcessingLog(jobs, j, LogLine(p))
                /\ Continues(j, [AfterLog(p) EXCEPT !.readDone = FALSE, !.logsRead = <<>>])
                /\ UNCHANGED pending
    /\ UNCHANGED <<backend, splitFileCache, inventory, nextId, itemsCache, lastSet, resp>>

\* An awaited updateProcessingJob of job j's function
JobUpdate(j) ==
    LET p == proc[j] IN
    /\ CanRun(j) /\ p.pc \in UpdateLines
    /\ \E ok \in BOOLEAN :
        /\ ok \/ MayThrow
        /\ faultsLeft' = IF ok THEN faultsLeft ELSE faultsLeft - 1
        /\ IF ok
           THEN /\ jobs' = updateProcessingJob(jobs, j, Updates(p))
                /\ Continues(j, AfterUpdate(p))
                /\ UNCHANGED pending
           ELSE Throws(j, p, StorageError)
    /\ UNCHANGED <<backend, splitFileCache, inventory, nextId, itemsCache, lastSet, resp>>

\* line 661: analyzeInventoryImage answers, or throws
ImageAnalyze(j) ==
    LET p == proc[j]
        file == p.files[p.i]
    IN
    /\ CanRun(j) /\ p.pc = "L661"
    /\ IF file.throws
       THEN Throws(j, p, "Failed to analyze image")
       ELSE /\ Continues(j, [p EXCEPT !.allItems = p.allItems \o analyzeInventoryImage(file.lines),
                                      !.pc = "L664"])
            /\ UNCHANGED <<jobs, pending>>
    /\ UNCHANGED <<backend, splitFileCache, inventory, nextId, itemsCache, faultsLeft, lastSet, resp>>

\* Where lines 691-706 go with what line 689 found
ReconcileBranch(mode, existingItem) ==
    IF existingItem # NoItem /\ mode = "edit" THEN "L693"
    ELSE IF existingItem # NoItem THEN "L700"
    ELSE "L707"

\* line 689: findInventoryItemByName
ImageFind(j) ==
    LET p == proc[j] IN
    /\ CanRun(j) /\ p.pc = "L689"
    /\ \E ok \in BOOLEAN :
        /\ ok \/ MayThrow
        /\ faultsLeft' = IF ok THEN faultsLeft ELSE faultsLeft - 1
        /\ IF ok
           THEN /\ \E found \in findInventoryItemByName(backend, inventory, p.session,
                                                        Entry(p).name) :
                     Continues(j, [p EXCEPT !.existingItem = found,
                                            !.pc = ReconcileBranch(p.mode, found)])
                /\ UNCHANGED <<jobs, pending>>
           ELSE Throws(j, p, StorageError)
    /\ UNCHANGED <<backend, splitFileCache, inventory, nextId, itemsCache, lastSet, resp>>

\* A reconciliation that overwrites in every mode
AlwaysReplaces(mode, existingQuantity, totalQuantity) == totalQuantity

\* A reconciliation that adds in every mode
AlwaysAdds(mode, existingQuantity, totalQuantity) == existingQuantity + totalQuantity

\* The quantity lines 693-696 (mode 'edit') and 700-703 (other modes) write
ReconciledQuantity(mode, existingQuantity, totalQuantity) ==
    IF mode = "edit" THEN existingQuantity + totalQuantity ELSE totalQuantity

\* lines 693 and 700: updateInventoryItemQuantity of the item found
ImageUpdateQuantity(j) ==
    LET p == proc[j]
        id == p.existingItem.id
        quantity == ReconciledQuantity(p.mode, p.existingItem.quantity, Entry(p).quantity)
    IN
    /\ CanRun(j) /\ p.pc \in {"L693", "L700"}
    /\ \E ok \in BOOLEAN :
        /\ ok \/ MayThrow
        /\ faultsLeft' = IF ok THEN faultsLeft ELSE faultsLeft - 1
        /\ IF ok /\ HasItem(inventory, p.session, id)
           THEN /\ inventory' = updateInventoryItemQuantity(inventory, p.session, id, quantity)
                /\ lastSet' = [lastSet EXCEPT ![id] = quantity]
                /\ Continues(j, [p EXCEPT !.pc = IF p.pc = "L693" THEN "L697" ELSE "L704"])
                /\ UNCHANGED <<jobs, pending>>
           ELSE /\ Throws(j, p, IF ok THEN "Inventory item not found" ELSE StorageError)
                /\ UNCHANGED <<inventory, lastSet>>
    /\ UNCHANGED <<backend, splitFileCache, nextId, itemsCache, resp>>

\* lines 707 and 502, processItemForMarket up to its await: findItemSlug
MarketLookup(j) ==
    LET p == proc[j]
        slug == findItemSlug(itemsCache, Entry(p).name)
        without == IF p.pc = "L707" THEN "L723" ELSE "L521"
    IN
    /\ CanRun(j) /\ p.pc \in {"L707", "L502"}
    /\ Continues(j, [p EXCEPT !.slug = slug, !.pc = IF slug = Null THEN without ELSE "L119"])
    /\ UNCHANGED <<backend, splitFileCache, inventory, nextId, jobs, pending, itemsCache, faultsLeft,
                   lastSet, resp>>

\* warframe-market.ts line 119: getItemPrices answers
MarketPrices(j) ==
    LET p == proc[j] IN
    /\ CanRun(j) /\ p.pc = "L119"
    /\ \E marketData \in getItemPrices(p.slug.v) :
        Continues(j, [p EXCEPT !.marketData = marketData,
                               !.pc = IF p.kind = "images"
                                      THEN (IF marketData = Null THEN "L723" ELSE "L710")
                                      ELSE (IF marketData = Null THEN "L521" ELSE "L506")])
    /\ UNCHANGED <<backend, splitFileCache, inventory, nextId, jobs, pending, itemsCache, faultsLeft,
                   lastSet, resp>>

\* A record that keeps the market's slug and URL whatever the price call gave
KeepsMarketUrl(itemName, totalQuantity, marketData) ==
    [name |-> itemName, slug |-> Str(toLowerCase(itemName)), quantity |-> Num(totalQuantity),
     sellPrices |-> <<>>, buyPrices |-> <<>>, avgSell |-> Num(0), avgBuy |-> Num(0),
     marketUrl |-> Str(<<"/">> \o toLowerCase(itemName)), category |-> "Unknown"]

\* The record lines 710-720 and 506-516 (market data found) and lines
\* 723-733 and 521-531 (not found) insert
IngestedItem(itemName, totalQuantity, marketData) ==
    IF marketData # Null
    THEN [name |-> itemName, slug |-> Str(marketData.slug), quantity |-> Num(totalQuantity),
          sellPrices |-> marketData.sellPrices, buyPrices |-> marketData.buyPrices,
          avgSell |-> Num(marketData.avgSell), avgBuy |-> Num(marketData.avgBuy),
          marketUrl |-> Str(marketData.marketUrl), category |-> CategoryOf(itemName)]
    ELSE [name |-> itemName, slug |-> Null, quantity |-> Num(totalQuantity),
          sellPrices |-> <<>>, buyPrices |-> <<>>, avgSell |-> Num(0), avgBuy |-> Num(0),
          marketUrl |-> Null, category |-> "Unknown"]

\* lastSet once createInventoryItem has stored item
Recorded(ls, item) ==
    [id \in DOMAIN ls \cup {item.id} |-> IF id = item.id THEN item.quantity ELSE ls[id]]

\* lines 710, 723, 506 and 521: createInventoryItem
JobCreate(j) ==
    LET p == proc[j]
        insertItem == IngestedItem(Entry(p).name, Entry(p).quantity, p.marketData)
    IN
    /\ CanRun(j) /\ p.pc \in {"L710", "L723", "L506", "L521"}
    /\ \E ok \in BOOLEAN :
        /\ ok \/ MayThrow
        /\ faultsLeft' = IF ok THEN faultsLeft ELSE faultsLeft - 1
        /\ IF ok
           THEN /\ inventory' = createInventoryItem(inventory, p.session, nextId, insertItem)
                /\ nextId' = nextId + 1
                /\ lastSet' = Recorded(lastSet, NewItem(nextId, insertItem))
                /\ Continues(j, [p EXCEPT !.pc = CASE p.pc = "L710" -> "L721"
                                                   [] p.pc = "L723" -> "L734"
                                                   [] p.pc = "L506" -> "L518"
                                                   [] p.pc = "L521" -> "L533"])
                /\ UNCHANGED <<jobs, pending>>
           ELSE /\ Throws(j, p, StorageError)
                /\ UNCHANGED <<inventory, nextId, lastSet>>
    /\ UNCHANGED <<backend, splitFileCache, itemsCache, resp>>

\* lines 455-461, 559-564 and 760-765: workbook.xlsx.load and
\* getWorksheet(1); the split function goes on through its eachRow (566-619)
ReadWorkbook(j) ==
    LET p == proc[j] IN
    /\ CanRun(j) /\ p.pc \in {"L455", "L559", "L760"}
    /\ IF p.excelFile.kind = "sheet"
       THEN /\ Continues(j, [p EXCEPT !.pc = CASE p.pc = "L455" -> "L463"
                                                [] p.pc = "L559" -> "L621"
                                                [] p.pc = "L760" -> "L770"])
            /\ UNCHANGED <<jobs, pending>>
       ELSE Throws(j, p, IF p.excelFile.kind = "nosheet"
                         THEN "No worksheet found in Excel file"
                         ELSE "not a workbook")
    /\ UNCHANGED <<backend, splitFileCache, inventory, nextId, itemsCache, faultsLeft, lastSet, resp>>

\* lines 629-638: the two writeBuffer calls answer; after the second the
\* split files are cached for the session
SplitWrite(j) ==
    LET p == proc[j] IN
    /\ CanRun(j) /\ p.pc \in {"L629", "L630"}
    /\ splitFileCache' = IF p.pc = "L630"
                         THEN [splitFileCache EXCEPT ![p.session] = SplitFiles(p.excelFile.rows)]
                         ELSE splitFileCache
    /\ Continues(j, [p EXCEPT !.pc = IF p.pc = "L629" THEN "L630" ELSE "L640"])
    /\ UNCHANGED <<backend, inventory, nextId, jobs, pending, itemsCache, faultsLeft,
                   lastSet, resp>>

\* lines 463 and 756: clearInventory(sessionId)
JobClear(j) ==
    LET p == proc[j] IN
    /\ CanRun(j) /\ p.pc \in {"L463", "L756"}
    /\ \E ok \in BOOLEAN :
        /\ ok \/ MayThrow
        /\ faultsLeft' = IF ok THEN faultsLeft ELSE faultsLeft - 1
        /\ IF ok
           THEN /\ inventory' = clearInventory(inventory, p.session)
                /\ Continues(j, [p EXCEPT !.pc = IF p.pc = "L463" THEN "L464" ELSE "L757"])
                /\ UNCHANGED <<jobs, pending>>
           ELSE /\ Throws(j, p, StorageError)
                /\ UNCHANGED inventory
    /\ UNCHANGED <<backend, splitFileCache, nextId, itemsCache, lastSet, resp>>

\* The records lines 787-798 insert for the rows of a worksheet, in row order
LoadedItems(rows) == [n \in 1..Len(DataRows(rows)) |-> LoadedRow(DataRows(rows)[n].row)]

\* createInventoryItem called for each of items in turn, ids from id on
RECURSIVE CreateAll(_, _, _, _)
CreateAll(inv, sessionId, id, items) ==
    IF items = <<>> THEN inv
    ELSE CreateAll(createInventoryItem(inv, sessionId, id, Head(items)), sessionId,
                   id + 1, Tail(items))

RECURSIVE RecordedAll(_, _, _)
RecordedAll(ls, id, items) ==
    IF items = <<>> THEN ls
    ELSE RecordedAll(Recorded(ls, NewItem(id, Head(items))), id + 1, Tail(items))

\* The log line of the .then callback, line 801
LoadedLog(insertItem) == Log("Loaded", insertItem.name, insertItem.quantity.v, "")

\* The .then callbacks (799-802) of items n.. run one after the other
RECURSIVE ThenCallbacks(_, _, _, _)
ThenCallbacks(js, j, items, n) ==
    IF n > Len(items) THEN js
    ELSE ThenCallbacks(
            addProcessingLog(updateProcessingJob(js, j, [processedItems |-> n]),
                             j, LoadedLog(items[n])),
            j, items, n + 1)

\* The createInventoryItem calls of lines 787-798, made without await
CreateCalls(j, sessionId, rows) ==
    {[op |-> "create", job |-> j, row |-> DataRows(rows)[n].rowNumber,
      sessionId |-> sessionId, insertItem |-> LoadedRow(DataRows(rows)[n].row)] :
        n \in 1..Len(DataRows(rows))}

\* lines 775-807: eachRow.  MemStorage stores each row as it is called and
\* the .then callbacks run, in row order, before the timer of line 810 is
\* awaited by anything else; PostgresStorage leaves the calls in flight.
LoadRows(j) ==
    LET p == proc[j]
        items == LoadedItems(p.excelFile.rows)
    IN
    /\ CanRun(j) /\ p.pc = "L775"
    /\ IF backend = "mem"
       THEN /\ inventory' = CreateAll(inventory, p.session, nextId, items)
            /\ nextId' = nextId + Len(items)
            /\ lastSet' = RecordedAll(lastSet, nextId, items)
            /\ jobs' = ThenCallbacks(jobs, j, items, 1)
            /\ Continues(j, [p EXCEPT !.loadedCount = Len(items), !.pc = "L810"])
            /\ UNCHANGED pending
       ELSE /\ pending' = pending \cup CreateCalls(j, p.session, p.excelFile.rows)
            /\ Continues(j, [p EXCEPT !.pc = "L810"])
            /\ UNCHANGED <<inventory, nextId, lastSet, jobs>>
    /\ UNCHANGED <<backend, splitFileCache, itemsCache, faultsLeft, resp>>

\* line 810: the timer of one second fires
LoadTimer(j) ==
    LET p == proc[j] IN
    /\ CanRun(j) /\ p.pc = "L810"
    /\ Continues(j, [p EXCEPT !.pc = "L812"])
    /\ UNCHANGED <<backend, splitFileCache, inventory, nextId, jobs, pending, itemsCache, faultsLeft,
                   lastSet, resp>>

\* A createInventoryItem call in flight ends: .then (799-802) or .catch (803-805)
PendingCreate(op) ==
    LET j == op.job
        loadedCount == proc[j].loadedCount + 1
    IN
    /\ running = 0 /\ op \in pending /\ op.op = "create"
    /\ \E ok \in BOOLEAN :
        /\ ok \/ MayThrow
        /\ faultsLeft' = IF ok THEN faultsLeft ELSE faultsLeft - 1
        /\ IF ok
           THEN /\ inventory' = createInventoryItem(inventory, op.sessionId, nextId, op.insertItem)
                /\ nextId' = nextId + 1
                /\ lastSet' = Recorded(lastSet, NewItem(nextId, op.insertItem))
                /\ proc' = [proc EXCEPT ![j].loadedCount = loadedCount]
                /\ pending' = (pending \ {op}) \cup
                       {UpdateCall(j, [processedItems |-> loadedCount]),
                        LogCall(j, op.row, LoadedLog(op.insertItem))}
           ELSE /\ pending' = (pending \ {op}) \cup
                       {LogCall(j, op.row, Log("Error loading", op.insertItem.name, 0,
                                               StorageError))}
                /\ UNCHANGED <<inventory, nextId, lastSet, proc>>
    /\ UNCHANGED <<backend, splitFileCache, jobs, itemsCache, running, resp>>

\* An updateProcessingJob call in flight ends; nothing awaits it, so what
\* it throws is lost
PendingUpdate(op) ==
    /\ running = 0 /\ op \in pending /\ op.op = "update"
    /\ \E ok \in BOOLEAN :
        /\ ok \/ MayThrow
        /\ faultsLeft' = IF ok THEN faultsLeft ELSE faultsLeft - 1
        /\ jobs' = IF ok THEN updateProcessingJob(jobs, op.job, op.updates) ELSE jobs
    /\ pending' = pending \ {op}
    /\ UNCHANGED <<backend, splitFileCache, inventory, nextId, proc, itemsCache, running, lastSet, resp>>

\* An addProcessingLog call in flight reads the job (part_006 line 119)
PendingLogRead(op) ==
    /\ running = 0 /\ op \in pending /\ op.op = "log" /\ ~op.readDone
    /\ \E ok \in BOOLEAN :
        /\ ok \/ MayThrow
        /\ faultsLeft' = IF ok THEN faultsLeft ELSE faultsLeft - 1
        /\ pending' = (pending \ {op}) \cup
              (IF ok THEN {[op EXCEPT !.readDone = TRUE, !.logsRead = jobs[op.job].logs]}
               ELSE {})
    /\ UNCHANGED <<backend, splitFileCache, inventory, nextId, jobs, proc, itemsCache, running, lastSet, resp>>

\* An addProcessingLog call in flight writes the logs back (lines 127-129)
PendingLogWrite(op) ==
    /\ running = 0 /\ op \in pending /\ op.op = "log" /\ op.readDone
    /\ \E ok \in BOOLEAN :
        /\ ok \/ MayThrow
        /\ faultsLeft' = IF ok THEN faultsLeft ELSE faultsLeft - 1
        /\ jobs' = IF ok THEN writeProcessingLog(jobs, op.job, op.logsRead, op.log) ELSE jobs
    /\ pending' = pending \ {op}
    /\ UNCHANGED <<backend, splitFileCache, inventory, nextId, proc, itemsCache, running, lastSet, resp>>

----------------------------------------------------------------------------
(* The routes of routes.ts *)

Reply(route, sessionId, status) == [route |-> route, sessionId |-> sessionId, status |-> status]

\* The first await of each function
FirstLine(kind) ==
    CASE kind = "images" -> "L650" [] kind = "prices" -> "L449" [] kind = "load" -> "L750"
      [] kind = "split" -> "L553"

\* The id createProcessingJob gives the next job
NextJobId == Cardinality(DOMAIN jobs) + 1

\* A route creates the job and calls the function without awaiting it
StartJob(route, kind, sessionId, mode, files, excelFile) ==
    LET j == NextJobId IN
    /\ j \in DOMAIN proc
    /\ \E ok \in BOOLEAN :
        /\ ok \/ MayThrow
        /\ faultsLeft' = IF ok THEN faultsLeft ELSE faultsLeft - 1
        /\ IF ok
           THEN /\ jobs' = createProcessingJob(jobs, j,
                               NewJob(IF kind = "images" THEN Len(files) ELSE 0))
                /\ Continues(j, [NoProc EXCEPT !.kind = kind, !.session = sessionId,
                                               !.mode = mode, !.files = files,
                                               !.excelFile = excelFile,
                                               !.pc = FirstLine(kind)])
                /\ resp' = Reply(route, sessionId, 200)
           ELSE /\ resp' = Reply(route, sessionId, 500)
                /\ UNCHANGED <<jobs, proc, running>>
    /\ UNCHANGED <<backend, splitFileCache, inventory, nextId, pending, itemsCache, lastSet>>

\* A request that the route turns down before any job is created
Rejected(route, sessionId) ==
    /\ resp' = Reply(route, sessionId, 400)
    /\ UNCHANGED <<backend, splitFileCache, inventory, nextId, jobs, proc, pending, itemsCache, running,
                   faultsLeft, lastSet>>

\* POST /api/add-screenshots, lines 76-105: mode 'edit'
AddScreenshots(sessionId, files) ==
    /\ running = 0
    /\ IF files = <<>> THEN Rejected("add-screenshots", sessionId)
       ELSE StartJob("add-screenshots", "images", sessionId, "edit", files, NoProc.excelFile)

\* POST /api/process-online, lines 413-442: mode 'online'
ProcessOnline(sessionId, files) ==
    /\ running = 0
    /\ IF files = <<>> THEN Rejected("process-online", sessionId)
       ELSE StartJob("process-online", "images", sessionId, "online", files, NoProc.excelFile)

\* POST /api/load-excel, lines 44-73
LoadExcel(sessionId, excelFile) ==
    /\ running = 0
    /\ IF excelFile.kind = "none" THEN Rejected("load-excel", sessionId)
       ELSE StartJob("load-excel", "load", sessionId, "", <<>>, excelFile)

\* POST /api/update-prices, lines 108-137
UpdatePrices(sessionId, excelFile) ==
    /\ running = 0
    /\ IF excelFile.kind = "none" THEN Rejected("update-prices", sessionId)
       ELSE StartJob("update-prices", "prices", sessionId, "", <<>>, excelFile)

\* POST /api/split-excel, lines 140-169
SplitExcel(sessionId, excelFile) ==
    /\ running = 0
    /\ IF excelFile.kind = "none" THEN Rejected("split-excel", sessionId)
       ELSE StartJob("split-excel", "split", sessionId, "", <<>>, excelFile)

\* A cache lookup that falls back on the files of any session
CachedByAnyone(cache, sessionId) ==
    IF cache[sessionId] # NoSplitFiles \/ \A s \in Sessions : cache[s] = NoSplitFiles
    THEN cache[sessionId]
    ELSE cache[CHOOSE s \in Sessions : cache[s] # NoSplitFiles]

\* line 182: splitFileCache.get(sessionId)
CachedSplit(cache, sessionId) == cache[sessionId]

\* GET /api/download-split/:type, lines 172-201: the reply carries the file
DownloadSplit(sessionId, type) ==
    /\ running = 0
    /\ resp' = IF type \notin {"low", "high"} THEN Reply("download-split", sessionId, 400)
               ELSE IF CachedSplit(splitFileCache, sessionId) = NoSplitFiles
               THEN Reply("download-split", sessionId, 404)
               ELSE [route |-> "download-split", sessionId |-> sessionId, status |-> 200,
                     file |-> IF type = "low"
                              THEN CachedSplit(splitFileCache, sessionId).lowPriceFile
                              ELSE CachedSplit(splitFileCache, sessionId).highPriceFile]
    /\ UNCHANGED <<backend, splitFileCache, inventory, nextId, jobs, proc, pending,
                   itemsCache, running, faultsLeft, lastSet>>

\* PATCH /api/inventory/:id/quantity, lines 249-266.  The quantity column of
\* PostgresStorage is an integer: the UPDATE of another number fails.
PatchQuantity(sessionId, id, quantity) ==
    /\ running = 0
    /\ IF ~updateQuantitySchema(quantity)
       THEN /\ resp' = Reply("quantity", sessionId, 400)
            /\ UNCHANGED <<inventory, lastSet, faultsLeft>>
       ELSE \E ok \in BOOLEAN :
            /\ ok \/ MayThrow
            /\ faultsLeft' = IF ok THEN faultsLeft ELSE faultsLeft - 1
            /\ IF /\ ok
                  /\ HasItem(inventory, sessionId, id)
                  /\ (backend = "mem" \/ IsWhole(quantity))
               THEN /\ inventory' = updateInventoryItemQuantity(inventory, sessionId, id, quantity)
                    /\ lastSet' = [lastSet EXCEPT ![id] = quantity]
                    /\ resp' = Reply("quantity", sessionId, 200)
               ELSE /\ resp' = Reply("quantity", sessionId, 500)
                    /\ UNCHANGED <<inventory, lastSet>>
    /\ UNCHANGED <<backend, splitFileCache, nextId, jobs, proc, pending, itemsCache, running>>

\* DELETE /api/inventory/:id, lines 269-277
DeleteItem(sessionId, id) ==
    /\ running = 0
    /\ \E ok \in BOOLEAN :
        /\ ok \/ MayThrow
        /\ faultsLeft' = IF ok THEN faultsLeft ELSE faultsLeft - 1
        /\ inventory' = IF ok THEN deleteInventoryItem(inventory, sessionId, id) ELSE inventory
        /\ resp' = Reply("delete", sessionId, IF ok THEN 200 ELSE 500)
    /\ UNCHANGED <<backend, splitFileCache, nextId, jobs, proc, pending, itemsCache, running, lastSet>>

\* POST /api/clear-inventory, lines 370-378
ClearInventory(sessionId) ==
    /\ running = 0
    /\ \E ok \in BOOLEAN :
        /\ ok \/ MayThrow
        /\ faultsLeft' = IF ok THEN faultsLeft ELSE faultsLeft - 1
        /\ inventory' = IF ok THEN clearInventory(inventory, sessionId) ELSE inventory
        /\ resp' = Reply("clear-inventory", sessionId, IF ok THEN 200 ELSE 500)
    /\ UNCHANGED <<backend, splitFileCache, nextId, jobs, proc, pending, itemsCache, running, lastSet>>

\* GET /api/export/excel, lines 280-346: the reply carries the workbook
ExportExcel(sessionId) ==
    /\ running = 0
    /\ \E ok \in BOOLEAN :
        /\ ok \/ MayThrow
        /\ faultsLeft' = IF ok THEN faultsLeft ELSE faultsLeft - 1
        /\ resp' = IF ok
                   THEN [route |-> "export", sessionId |-> sessionId, status |-> 200,
                         workbook |-> Workbook("sheet",
                                        ExportRows(getInventoryItems(inventory, sessionId)))]
                   ELSE Reply("export", sessionId, 500)
    /\ UNCHANGED <<backend, splitFileCache, inventory, nextId, jobs, proc, pending, itemsCache, running,
                   lastSet>>

----------------------------------------------------------------------------
(* What callers send *)

\* Answers of the recognition model
ImageA == Image(<<"a">>, <<Line(FooBar, Whole(2)), <<" ">>, Axi>>)
ImageB == Image(<<"b">>, <<Line(fooBarTight, Whole(1)), Line(FooBar, -Whole(3))>>)
ImageC == BadImage(<<"c">>)

Batches == {<<ImageA>>, <<ImageB>>, <<ImageC, ImageA>>, <<ImageA, ImageB>>}

\* An item as an earlier ingestion of name without a market match stored it
SeedItem(id, name, quantity) == NewItem(id, IngestedItem(name, quantity, Null))

\* A data row as a caller may type it
TypedRow(name, quantity) ==
    <<name, quantity, EmptyCell, EmptyCell, EmptyCell, EmptyCell, EmptyCell, EmptyCell>>

Workbooks ==
    {Workbook("corrupt", <<>>),
     Workbook("nosheet", <<>>),
     Workbook("sheet", <<>>),
     Workbook("sheet", ExportRows(<<SeedItem(0, Axi, Whole(2)), SeedItem(0, FooBar, Whole(1))>>)),
     Workbook("sheet", <<BlankRow, TypedRow(Str(Axi), Num(-Whole(1)))>>),
     Workbook("sheet", <<HeaderRow, TypedRow(EmptyCell, Num(Whole(1))),
                         TypedRow(Str(FooBar), EmptyCell)>>)}

----------------------------------------------------------------------------
(* Specifications *)

NoReply == Reply("", "", 0)

\* Every item the store holds
StoredItems(inv) == UNION {{inv[s][n] : n \in 1..Len(inv[s])} : s \in Sessions}

\* The server after registerRoutes: the catalog loaded (lines 24-30), no job.
\* seeds is what the store holds from before.
InitStore(backends, seeds, jobCount, faults) ==
    /\ backend \in backends
    /\ inventory = seeds
    /\ nextId = 1 + Len(seeds["s1"]) + Len(seeds["s2"])
    /\ jobs = <<>>
    /\ proc = [j \in 1..jobCount |-> NoProc]
    /\ pending = {}
    /\ itemsCache = LoadedCache(CatalogItems)
    /\ running = 0
    /\ faultsLeft = faults
    /\ lastSet = [id \in {it.id : it \in StoredItems(seeds)} |->
                    (CHOOSE it \in StoredItems(seeds) : it.id = id).quantity]
    /\ splitFileCache = [s \in Sessions |-> NoSplitFiles]
    /\ resp = NoReply

\* Session s1 holds an item from before, session s2 nothing
Seeds == [s \in Sessions |-> IF s = "s1" THEN <<SeedItem(1, Axi, Whole(1))>> ELSE <<>>]

Init == InitStore({"mem", "pg"}, Seeds, MaxJobs, MaxFaults)

\* The steps processImagesAsync takes
ImageNext ==
    \/ \E j \in DOMAIN proc : JobLog(j)
    \/ \E j \in DOMAIN proc : JobUpdate(j)
    \/ \E j \in DOMAIN proc : ImageAnalyze(j)
    \/ \E j \in DOMAIN proc : ImageFind(j)
    \/ \E j \in DOMAIN proc : ImageUpdateQuantity(j)
    \/ \E j \in DOMAIN proc : MarketLookup(j)
    \/ \E j \in DOMAIN proc : MarketPrices(j)
    \/ \E j \in DOMAIN proc : JobCreate(j)

\* The steps loadExcelFileAsync takes, and the calls it leaves in flight
LoadNext ==
    \/ \E j \in DOMAIN proc : JobLog(j)
    \/ \E j \in DOMAIN proc : JobUpdate(j)
    \/ \E j \in DOMAIN proc : ReadWorkbook(j)
    \/ \E j \in DOMAIN proc : JobClear(j)
    \/ \E j \in DOMAIN proc : LoadRows(j)
    \/ \E j \in DOMAIN proc : LoadTimer(j)
    \/ \E op \in pending : PendingCreate(op)
    \/ \E op \in pending : PendingUpdate(op)
    \/ \E op \in pending : PendingLogRead(op)
    \/ \E op \in pending : PendingLogWrite(op)

\* The steps of every function and of the calls left in flight
JobNext ==
    \/ \E j \in DOMAIN proc : JobLog(j)
    \/ \E j \in DOMAIN proc : JobUpdate(j)
    \/ \E j \in DOMAIN proc : ImageAnalyze(j)
    \/ \E j \in DOMAIN proc : ImageFind(j)
    \/ \E j \in DOMAIN proc : ImageUpdateQuantity(j)
    \/ \E j \in DOMAIN proc : MarketLookup(j)
    \/ \E j \in DOMAIN proc : MarketPrices(j)
    \/ \E j \in DOMAIN proc : JobCreate(j)
    \/ \E j \in DOMAIN proc : ReadWorkbook(j)
    \/ \E j \in DOMAIN proc : JobClear(j)
    \/ \E j \in DOMAIN proc : LoadRows(j)
    \/ \E j \in DOMAIN proc : LoadTimer(j)
    \/ \E op \in pending : PendingCreate(op)
    \/ \E op \in pending : PendingUpdate(op)
    \/ \E op \in pending : PendingLogRead(op)
    \/ \E op \in pending : PendingLogWrite(op)

Next ==
    \/ \E sessionId \in Sessions, files \in Batches : AddScreenshots(sessionId, files)
    \/ \E sessionId \in Sessions, files \in Batches : ProcessOnline(sessionId, files)
    \/ \E sessionId \in Sessions, excelFile \in Workbooks : LoadExcel(sessionId, excelFile)
    \/ \E sessionId \in Sessions, excelFile \in Workbooks : UpdatePrices(sessionId, excelFile)
    \/ JobNext

Spec == Init /\ [][Next]_vars

\* No function of a job is under way
AllIdle == \A j \in DOMAIN proc : proc[j].pc \in {"idle", "done"}

\* One caller after the other: image jobs, each started when the one before
\* has ended.  Session s1 holds Axi from before, session s2 nothing.
SeqQuantities == {Whole(q) : q \in 1..MaxQty}

SeqBatches ==
    {<<Image(<<"a">>, <<Line(Axi, q)>>)>> : q \in SeqQuantities}
    \cup {<<Image(<<"a">>, <<Line(Axi, q[1])>>), Image(<<"b">>, <<Line(Axi, q[2])>>)>> :
             q \in SeqQuantities \X SeqQuantities}

InitSeq == InitStore({"mem", "pg"}, Seeds, SeqJobs, 0)

NextSeq ==
    \/ AllIdle /\ \E sessionId \in Sessions, files \in SeqBatches :
                     AddScreenshots(sessionId, files)
    \/ AllIdle /\ \E sessionId \in Sessions, files \in SeqBatches :
                     ProcessOnline(sessionId, files)
    \/ ImageNext

SpecSeq == InitSeq /\ [][NextSeq]_vars

\* Two sessions that both hold an item, and callers of both at work
SessionSeeds ==
    [s \in Sessions |-> IF s = "s1" THEN <<SeedItem(1, Axi, Whole(1))>>
                        ELSE <<SeedItem(2, FooBar, Whole(2))>>]

\* 1.5, a number that is not whole
OneAndAHalf == Whole(1) + (Scale \div 2)

PatchQuantities == {-Whole(1), 0, OneAndAHalf, Whole(MaxQty)}

SessionWorkbooks == {Workbook("sheet", ExportRows(<<SeedItem(0, Axi, Whole(2))>>))}

SessionQuantities == {Whole(MaxQty)}

InitSessions == InitStore({"mem", "pg"}, SessionSeeds, MaxJobs, 0)

NextSessions ==
    \/ \E sessionId \in Sessions : AddScreenshots(sessionId, <<ImageA>>)
    \/ \E sessionId \in Sessions, excelFile \in SessionWorkbooks :
          LoadExcel(sessionId, excelFile)
    \/ \E sessionId \in Sessions, excelFile \in SessionWorkbooks :
          UpdatePrices(sessionId, excelFile)
    \/ \E sessionId \in Sessions, id \in 1..nextId, quantity \in SessionQuantities :
          PatchQuantity(sessionId, id, quantity)
    \/ \E sessionId \in Sessions, id \in 1..nextId : DeleteItem(sessionId, id)
    \/ \E sessionId \in Sessions : ClearInventory(sessionId)
    \/ JobNext

SpecSessions == InitSessions /\ [][NextSessions]_vars

\* A caller edits a session, exports it and loads the exported workbook
\* into the other session.  Session s1 holds an item with market data and
\* one without, as ingestion stores them.
RoundTripSeeds ==
    [s \in Sessions |->
        IF s = "s1"
        THEN <<NewItem(1, IngestedItem(Axi, Whole(2),
                                       ItemPrices(<<"a", "x", "i">>,
                                                  [sell |-> <<Whole(10), Whole(15)>>,
                                                   buy |-> <<Whole(7), Whole(8), Whole(8)>>]))),
               SeedItem(2, FooBar, Whole(1))>>
        ELSE <<SeedItem(3, Axi, Whole(1))>>]

InitRoundTrip == InitStore({"mem", "pg"}, RoundTripSeeds, MaxJobs, 0)

BeforeExport == resp.route \notin {"export", "load-excel"}

Exported == resp.route = "export" /\ resp.status = 200

NextRoundTrip ==
    \/ BeforeExport /\ \E sessionId \in Sessions, id \in 1..nextId,
                            quantity \in PatchQuantities :
                         PatchQuantity(sessionId, id, quantity)
    \/ BeforeExport /\ \E sessionId \in Sessions, id \in 1..nextId :
                         DeleteItem(sessionId, id)
    \/ BeforeExport /\ \E sessionId \in Sessions : ExportExcel(sessionId)
    \/ Exported /\ \E sessionId \in Sessions \ {resp.sessionId} :
                     LoadExcel(sessionId, resp.workbook)
    \/ LoadNext

SpecRoundTrip == InitRoundTrip /\ [][NextRoundTrip]_vars

\* Callers split workbooks and download the split files
PricedRow(name, price) ==
    <<Str(name), Num(Whole(1)), EmptyCell, price, EmptyCell, EmptyCell, EmptyCell, EmptyCell>>

\* "12.5, 3"
TwelveAndAHalfThenThree == <<"1", "2", ".", "5", ",", " ", "3">>

SplitWorkbooks ==
    {Workbook("none", <<>>),
     Workbook("corrupt", <<>>),
     Workbook("nosheet", <<>>),
     Workbook("sheet", ExportRows(<<NewItem(0, IngestedItem(Axi, Whole(2),
                                       ItemPrices(<<"a", "x", "i">>,
                                                  [sell |-> <<Whole(10), Whole(15)>>,
                                                   buy |-> <<>>]))),
                                    NewItem(0, IngestedItem(FooBar, Whole(1),
                                       ItemPrices(<<"f", "o", "o">>,
                                                  [sell |-> <<Whole(11)>>,
                                                   buy |-> <<Whole(7)>>]))),
                                    SeedItem(0, fooBarTight, Whole(1))>>)),
     Workbook("sheet", <<TypedRow(Str(Axi), EmptyCell),
                         PricedRow(Axi, Num(Whole(11))),
                         BlankRow,
                         PricedRow(FooBar, Str(TwelveAndAHalfThenThree)),
                         PricedRow(FooBar, Num(OneAndAHalf + Whole(9))),
                         PricedRow(Axi, Num(Whole(11)))>>)}

InitSplit == InitStore({"mem", "pg"}, Seeds, MaxJobs, MaxFaults)

NextSplit ==
    \/ \E sessionId \in Sessions, excelFile \in SplitWorkbooks :
          SplitExcel(sessionId, excelFile)
    \/ \E sessionId \in Sessions, type \in {"low", "high", "other"} :
          DownloadSplit(sessionId, type)
    \/ \E j \in DOMAIN proc : JobLog(j)
    \/ \E j \in DOMAIN proc : JobUpdate(j)
    \/ \E j \in DOMAIN proc : ReadWorkbook(j)
    \/ \E j \in DOMAIN proc : SplitWrite(j)
    \/ \E op \in pending : PendingUpdate(op)
    \/ \E op \in pending : PendingLogRead(op)
    \/ \E op \in pending : PendingLogWrite(op)

SpecSplit == InitSplit /\ [][NextSplit]_vars

\* Callers of both sessions split workbooks of different rows, one after or
\* beside the other, and download
DownloadWorkbooks ==
    {Workbook("corrupt", <<>>),
     Workbook("sheet", <<TypedRow(Str(Axi), EmptyCell),
                         PricedRow(Axi, Num(Whole(11))),
                         PricedRow(FooBar, Num(Whole(3)))>>),
     Workbook("sheet", <<TypedRow(Str(Axi), EmptyCell),
                         PricedRow(Zaw, Num(Whole(3)))>>)}

InitDownload == InitStore({"mem", "pg"}, Seeds, RaceJobs, MaxFaults)

NextDownload ==
    \/ \E sessionId \in Sessions, excelFile \in DownloadWorkbooks :
          SplitExcel(sessionId, excelFile)
    \/ \E sessionId \in Sessions, type \in {"low", "high", "other"} :
          DownloadSplit(sessionId, type)
    \/ \E j \in DOMAIN proc : JobLog(j)
    \/ \E j \in DOMAIN proc : JobUpdate(j)
    \/ \E j \in DOMAIN proc : ReadWorkbook(j)
    \/ \E j \in DOMAIN proc : SplitWrite(j)
    \/ \E op \in pending : PendingUpdate(op)
    \/ \E op \in pending : PendingLogRead(op)
    \/ \E op \in pending : PendingLogWrite(op)

SpecDownload == InitDownload /\ [][NextDownload]_vars

\* Callers send screenshots with a name the market does not list
LookupBatches ==
    {<<Image(<<"a">>, <<Line(Zaw, Whole(1))>>)>>,
     <<Image(<<"a">>, <<Line(Zaw, Whole(2)), Line(Axi, Whole(1))>>),
       Image(<<"b">>, <<Line(Zaw, Whole(1))>>)>>}

InitLookup == InitStore({"mem", "pg"}, Seeds, MaxJobs, MaxFaults)

NextLookup ==
    \/ \E sessionId \in Sessions, files \in LookupBatches : AddScreenshots(sessionId, files)
    \/ \E sessionId \in Sessions, files \in LookupBatches : ProcessOnline(sessionId, files)
    \/ ImageNext
    \/ \E op \in pending : PendingUpdate(op)
    \/ \E op \in pending : PendingLogRead(op)
    \/ \E op \in pending : PendingLogWrite(op)

SpecLookup == InitLookup /\ [][NextLookup]_vars

\* Callers send requests that validation turns down among ones it lets
\* through: an empty batch, a request without a file, a negative quantity
ValidateBatches == {<<>>, <<ImageA>>}

ValidateWorkbooks == {Workbook("none", <<>>)} \cup SessionWorkbooks

ValidateQuantities == {-Whole(1), Whole(MaxQty)}

InitValidate == InitStore({"mem", "pg"}, SessionSeeds, MaxJobs, 0)

NextValidate ==
    \/ \E sessionId \in Sessions, files \in ValidateBatches : AddScreenshots(sessionId, files)
    \/ \E sessionId \in Sessions, files \in ValidateBatches : ProcessOnline(sessionId, files)
    \/ \E sessionId \in Sessions, excelFile \in ValidateWorkbooks :
          LoadExcel(sessionId, excelFile)
    \/ \E sessionId \in Sessions, excelFile \in ValidateWorkbooks :
          UpdatePrices(sessionId, excelFile)
    \/ \E sessionId \in Sessions, excelFile \in ValidateWorkbooks :
          SplitExcel(sessionId, excelFile)
    \/ \E sessionId \in Sessions, id \in 1..nextId, quantity \in ValidateQuantities :
          PatchQuantity(sessionId, id, quantity)
    \/ JobNext
    \/ \E j \in DOMAIN proc : SplitWrite(j)

SpecValidate == InitValidate /\ [][NextValidate]_vars

\* An ingestion job followed to its end: every call that is under way
\* returns or throws, whether the function awaits it or not
LiveBatches == {<<Image(<<"a">>, <<Axi>>)>>}

InitLive == InitStore({"mem", "pg"}, Seeds, MaxJobs, LiveFaults)

CallsReturn ==
    \/ ImageNext
    \/ \E op \in pending : PendingUpdate(op)
    \/ \E op \in pending : PendingLogRead(op)
    \/ \E op \in pending : PendingLogWrite(op)

NextLive ==
    \/ \E sessionId \in Sessions, files \in LiveBatches : AddScreenshots(sessionId, files)
    \/ CallsReturn

SpecLive == InitLive /\ [][NextLive]_vars /\ WF_vars(CallsReturn)

\* Image jobs under way at the same time: a job is started whatever the
\* others are doing.  Session s1 holds Axi from before, session s2 nothing.
RaceBatches == {<<Image(<<"a">>, <<Line(Axi, q)>>)>> : q \in SeqQuantities}

InitRace == InitStore({"mem", "pg"}, Seeds, RaceJobs, 0)

NextRace ==
    \/ \E sessionId \in Sessions, files \in RaceBatches : AddScreenshots(sessionId, files)
    \/ \E sessionId \in Sessions, files \in RaceBatches : ProcessOnline(sessionId, files)
    \/ ImageNext

SpecRace == InitRace /\ [][NextRace]_vars

\* normalizeString applied to every text of up to MaxLen characters over a
\* capital letter, the space and the colon; resp carries text and result
Alphabet == {"X", " ", ":"}

Texts == UNION {[1..n -> Alphabet] : n \in 0..MaxLen}

InitNormalize == InitStore({"mem"}, Seeds, MaxJobs, 0)

NormalizeString(text) ==
    /\ resp' = [route |-> "normalizeString", sessionId |-> "", status |-> 0,
                text |-> text, result |-> normalizeString(text)]
    /\ UNCHANGED <<backend, splitFileCache, inventory, nextId, jobs, proc, pending,
                   itemsCache, running, faultsLeft, lastSet>>

NextNormalize == \E text \in Texts : NormalizeString(text)

SpecNormalize == InitNormalize /\ [][NextNormalize]_vars

\* Callers send screenshots that show one name several times, in one
\* spelling and in spellings that differ in case
AggregateBatches ==
    {<<Image(<<"a">>, <<Line(Axi, Whole(1)), Line(axiLower, Whole(2)), Line(Axi, Whole(2))>>)>>,
     <<Image(<<"a">>, <<Line(Axi, Whole(1)), Line(FooBar, Whole(2))>>),
       ImageC,
       Image(<<"b">>, <<Line(FooBar, Whole(1)), Line(axiLower, Whole(1))>>)>>}

InitAggregate == InitStore({"mem", "pg"}, Seeds, MaxJobs, MaxFaults)

NextAggregate ==
    \/ \E sessionId \in Sessions, files \in AggregateBatches : AddScreenshots(sessionId, files)
    \/ \E sessionId \in Sessions, files \in AggregateBatches : ProcessOnline(sessionId, files)
    \/ ImageNext
    \/ \E op \in pending : PendingUpdate(op)
    \/ \E op \in pending : PendingLogRead(op)
    \/ \E op \in pending : PendingLogWrite(op)

SpecAggregate == InitAggregate /\ [][NextAggregate]_vars

\* The server from the import of warframe-market.ts on: the cache is the
\* empty Map of line 24, the loadItemsCache() of module initialisation
\* (line 123) and the one registerRoutes awaits (routes.ts 25-30) are under
\* way.  The catalog the market serves may have changed between the two.
RenamedCatalog ==
    {[slug |-> <<"a", "x", "i", "_", "r">>, name |-> Axi],
     [slug |-> <<"z", "a", "w">>, name |-> Zaw]}

Catalogs == {CatalogItems, RenamedCatalog}

\* A loadItemsCache() call under way: n = 1 module initialisation, n = 2
\* registerRoutes
ReloadCall(n) == [op |-> "reload", job |-> 0, n |-> n]

\* registerRoutes has got past its await: the routes answer
Registered == ReloadCall(2) \notin pending

InitCache ==
    /\ backend \in {"mem", "pg"}
    /\ inventory = Seeds
    /\ nextId = 1 + Len(Seeds["s1"]) + Len(Seeds["s2"])
    /\ jobs = <<>>
    /\ proc = [j \in 1..MaxJobs |-> NoProc]
    /\ pending = {ReloadCall(1), ReloadCall(2)}
    /\ itemsCache = LoadedCache({})
    /\ running = 0
    /\ faultsLeft = 0
    /\ lastSet = [id \in {it.id : it \in StoredItems(Seeds)} |->
                    (CHOOSE it \in StoredItems(Seeds) : it.id = id).quantity]
    /\ splitFileCache = [s \in Sessions |-> NoSplitFiles]
    /\ resp = NoReply

\* The fetch of a loadItemsCache() call answers with a catalog, or fails
\* (lines 35-41): the callers log the error (line 123, routes.ts 28-30)
Reload(op) ==
    /\ running = 0 /\ op \in pending /\ op.op = "reload"
    /\ pending' = pending \ {op}
    /\ \/ \E items \in Catalogs : itemsCache' = ReloadedCache(itemsCache, items)
       \/ UNCHANGED itemsCache
    /\ UNCHANGED <<backend, splitFileCache, inventory, nextId, jobs, proc, running, faultsLeft,
                   lastSet, resp>>

NextCache ==
    \/ \E op \in pending : Reload(op)
    \/ Registered /\ \E sessionId \in Sessions, files \in LookupBatches \cup LiveBatches :
                         AddScreenshots(sessionId, files)
    \/ ImageNext

SpecCache == InitCache /\ [][NextCache]_vars

----------------------------------------------------------------------------
(* Properties.  A poll (GET /api/processing/:jobId, lines 236-246) reads    *)
(* the stored job in a turn of its own: it observes the states in which no  *)
(* function holds the event loop.                                           *)

Observable == running = 0

Terminal(status) == status \in {"completed", "failed"}

IsPrefix(a, b) == Len(a) <= Len(b) /\ SubSeq(b, 1, Len(a)) = a

\* C1: a job's status only moves forward: once a poll has observed
\* completed or failed, the next poll observes the same status, whatever
\* call of the pipeline throws.
StatusOnlyForward ==
    [][\A j \in DOMAIN jobs :
          (Observable /\ Observable' /\ Terminal(jobs[j].status))
              => jobs'[j].status = jobs[j].status]_vars

\* C2: at every poll of every job, processedImages <= totalImages and
\* processedItems <= totalItems.
CountersWithinTotals ==
    \A j \in DOMAIN jobs :
        Observable =>
            /\ jobs[j].processedImages <= jobs[j].totalImages
            /\ jobs[j].processedItems <= jobs[j].totalItems

\* A load job polled with more rows inserted than its total
LoadedMoreThanTotal ==
    \E j \in DOMAIN jobs :
        /\ Observable /\ proc[j].kind = "load"
        /\ jobs[j].processedItems > jobs[j].totalItems
        /\ jobs[j].processedItems = Len(getInventoryItems(inventory, proc[j].session))

\* C3: a job's log is append-only: the log a poll observes is a prefix of
\* the log the next poll observes.
LogAppendOnly ==
    [][\A j \in DOMAIN jobs :
          (Observable /\ Observable') => IsPrefix(jobs[j].logs, jobs'[j].logs)]_vars

\* A load job whose stored log misses the line of a row that was loaded and
\* whose append has ended
LoadedLineLost ==
    \E j \in DOMAIN jobs :
        /\ proc[j].kind = "load" /\ proc[j].pc = "done" /\ pending = {}
        /\ faultsLeft = MaxFaults
        /\ proc[j].loadedCount >
              Cardinality({n \in 1..Len(jobs[j].logs) : jobs[j].logs[n].text = "Loaded"})

\* C6: reading an item returns the quantity most recently set for it, and
\* no stored quantity is negative.
QuantityIsLastSetAndNotNegative ==
    \A it \in StoredItems(inventory) :
        /\ it.quantity = lastSet[it.id]
        /\ it.quantity >= 0

\* A stored item reads back the negative quantity it was created with
NegativeQuantityStored ==
    \E it \in StoredItems(inventory) : it.quantity < 0 /\ it.quantity = lastSet[it.id]

\* C7: with an item named "Foo: Bar" created in a session, findByName in
\* that session with "foo:bar" returns that item.
FindByNameNormalizes ==
    \A s \in Sessions :
        \A it \in StoredItems(inventory) :
            (it.name = FooBar /\ HasItem(inventory, s, it.id))
                => findInventoryItemByName(backend, inventory, s, fooBarTight) = {it}

\* "Foo: Bar" is stored in a session and findByName with "foo:bar" finds nothing
FooBarNotFound ==
    \E s \in Sessions :
        /\ \E it \in StoredItems(inventory) : it.name = FooBar /\ HasItem(inventory, s, it.id)
        /\ findInventoryItemByName(backend, inventory, s, fooBarTight) = {NoItem}

\* The jobs started for session s, in the order they were started
RanJobs(s) ==
    SelectSeq([j \in 1..Cardinality(DOMAIN jobs) |-> j], LAMBDA j : proc[j].session = s)

\* What the images of a job are recognised as, image after image
RECURSIVE AllRecognised(_)
AllRecognised(files) ==
    IF files = <<>> THEN <<>>
    ELSE analyzeInventoryImage(Head(files).lines) \o AllRecognised(Tail(files))

\* Job j is an image job of the given mode that has completed
CompletedIn(j, mode) ==
    /\ proc[j].kind = "images" /\ proc[j].mode = mode
    /\ proc[j].pc = "done" /\ jobs[j].status = "completed"

\* The names and quantities session s holds
Held(s) ==
    LET items == getInventoryItems(inventory, s)
    IN [n \in 1..Len(items) |-> [name |-> items[n].name, quantity |-> items[n].quantity]]

\* The quantities a list of recognised items or of stored items adds up to
Total(items) == Sum([n \in 1..Len(items) |-> items[n].quantity])

\* What the jobs of session s recognised in all, job after job
RecognisedIn(s) ==
    Sum([n \in 1..Len(RanJobs(s)) |-> Total(AllRecognised(proc[RanJobs(s)[n]].files))])

\* Every job session s ran was a merge-mode job, and all have completed
MergedOnly(s) ==
    /\ AllIdle
    /\ RanJobs(s) # <<>>
    /\ \A n \in 1..Len(RanJobs(s)) : CompletedIn(RanJobs(s)[n], "edit")

\* C4: merge-mode ingestion is additive: two successive merge-mode jobs
\* recognising A:q1 and then A:q2 leave the same quantity of A as one
\* merge-mode job whose images recognise A:q1 and A:q2, namely q1 + q2 added
\* to what was there before.  Stated for any number of merge-mode jobs: the
\* session holds A once, with what it held at the start plus everything
\* the jobs recognised.
MergeIsAdditive ==
    \A s \in Sessions :
        MergedOnly(s) =>
            Held(s) = <<[name |-> Axi, quantity |-> Total(Seeds[s]) + RecognisedIn(s)]>>

\* Two merge-mode jobs that each recognised one line, with different
\* quantities, have completed in a session and the session holds the sum
MergedTwice ==
    \E s \in Sessions :
        /\ MergedOnly(s)
        /\ Len(RanJobs(s)) = 2
        /\ \A n \in 1..2 : Len(AllRecognised(proc[RanJobs(s)[n]].files)) = 1
        /\ AllRecognised(proc[RanJobs(s)[1]].files)[1].quantity #
              AllRecognised(proc[RanJobs(s)[2]].files)[1].quantity
        /\ Held(s)[1].quantity = Total(Seeds[s]) + Whole(1) + Whole(2)

\* Session s ran two replace-mode jobs, each recognising one line, and both
\* have completed
ReplacedTwice(s) ==
    /\ AllIdle
    /\ Len(RanJobs(s)) = 2
    /\ \A n \in 1..2 :
          /\ CompletedIn(RanJobs(s)[n], "online")
          /\ Len(AllRecognised(proc[RanJobs(s)[n]].files)) = 1

\* C5: replace-mode ingestion is last-write-wins: two successive
\* replace-mode jobs recognising A:q1 and then A:q2 leave A with quantity q2.
ReplaceIsLastWrite ==
    \A s \in Sessions :
        ReplacedTwice(s) =>
            Held(s) = <<[name |-> Axi,
                         quantity |-> AllRecognised(proc[RanJobs(s)[2]].files)[1].quantity]>>

\* Two replace-mode jobs with different quantities have completed in a session
ReplacedWithAnotherQuantity ==
    \E s \in Sessions :
        /\ ReplacedTwice(s)
        /\ AllRecognised(proc[RanJobs(s)[1]].files)[1].quantity #
              AllRecognised(proc[RanJobs(s)[2]].files)[1].quantity
        /\ Held(s)[1].quantity = AllRecognised(proc[RanJobs(s)[2]].files)[1].quantity

\* A step in which session s is cleared: the route's call, or the call of a
\* load or price-refresh job of the session
Cleared(s) ==
    \/ ClearInventory(s) /\ resp'.status = 200
    \/ \E j \in DOMAIN proc :
          /\ proc[j].session = s
          /\ JobClear(j)
          /\ proc'[j].pc \in {"L464", "L757"}

\* C8: after clear(S), session S holds no items and every other session
\* holds exactly the items it held before.
ClearEmptiesOnlyItsSession ==
    [][\A s \in Sessions :
          Cleared(s) =>
              /\ getInventoryItems(inventory', s) = <<>>
              /\ \A o \in Sessions \ {s} :
                    getInventoryItems(inventory', o) = getInventoryItems(inventory, o)]_vars

\* Session s1, which held an item, was cleared by its caller and session s2
\* still holds its items
ClearedBesideAnother ==
    /\ resp = Reply("clear-inventory", "s1", 200)
    /\ getInventoryItems(inventory, "s1") = <<>>
    /\ getInventoryItems(inventory, "s2") # <<>>

\* What list, get and findByName return under session b for a store
Reads(inv, ids, b) ==
    [list |-> getInventoryItems(inv, b),
     get |-> [id \in ids |-> getInventoryItem(inv, b, id)],
     find |-> [name \in Names |-> findInventoryItemByName(backend, inv, b, name)]]

\* A step taken for session a: a request of its caller, or a step of a job
\* or of a call in flight started for it
ActsFor(a) ==
    \/ AddScreenshots(a, <<ImageA>>)
    \/ \E excelFile \in SessionWorkbooks : LoadExcel(a, excelFile)
    \/ \E excelFile \in SessionWorkbooks : UpdatePrices(a, excelFile)
    \/ \E id \in 1..nextId, quantity \in SessionQuantities : PatchQuantity(a, id, quantity)
    \/ \E id \in 1..nextId : DeleteItem(a, id)
    \/ ClearInventory(a)
    \/ \E j \in DOMAIN proc :
          /\ proc[j].session = a
          /\ \/ JobLog(j) \/ JobUpdate(j) \/ ImageAnalyze(j) \/ ImageFind(j)
             \/ ImageUpdateQuantity(j) \/ MarketLookup(j) \/ MarketPrices(j)
             \/ JobCreate(j) \/ ReadWorkbook(j) \/ JobClear(j) \/ LoadRows(j)
             \/ LoadTimer(j)
    \/ \E op \in pending :
          /\ proc[op.job].session = a
          /\ \/ PendingCreate(op) \/ PendingUpdate(op)
             \/ PendingLogRead(op) \/ PendingLogWrite(op)

\* C9: no operation performed under session A (create, updateQuantity,
\* delete, ingestion, import, price refresh) changes what list, get or
\* findByName return under another session B.
SessionsDoNotInterfere ==
    [][\A a \in Sessions :
          ActsFor(a) =>
              \A b \in Sessions \ {a} :
                  Reads(inventory', 1..nextId', b) = Reads(inventory, 1..nextId', b)]_vars

\* A job of session s1 has completed and changed what s1 holds, and session
\* s2 holds what it held at the start
OtherSessionAsBefore ==
    \E j \in DOMAIN jobs :
        /\ proc[j].session = "s1" /\ proc[j].pc = "done" /\ jobs[j].status = "completed"
        /\ pending = {}
        /\ getInventoryItems(inventory, "s1") # SessionSeeds["s1"]
        /\ getInventoryItems(inventory, "s2") = SessionSeeds["s2"]

\* The fields of an item that a round trip is to preserve; an absent market
\* URL is null
Preserved(item) ==
    [name |-> item.name, quantity |-> item.quantity,
     sellPrices |-> item.sellPrices, buyPrices |-> item.buyPrices,
     avgSell |-> item.avgSell, avgBuy |-> item.avgBuy,
     marketUrl |-> IF IsAbsent(item.marketUrl) THEN Null ELSE item.marketUrl]

\* The same items, in whatever order the store returns them
SameItems(xs, ys) ==
    /\ Len(xs) = Len(ys)
    /\ \A f \in {Preserved(xs[n]) : n \in 1..Len(xs)} \cup {Preserved(ys[n]) : n \in 1..Len(ys)} :
          Cardinality({n \in 1..Len(xs) : Preserved(xs[n]) = f}) =
             Cardinality({n \in 1..Len(ys) : Preserved(ys[n]) = f})

\* Job j loaded an exported workbook and every call it made has ended
RoundTripDone(j) ==
    /\ proc[j].kind = "load" /\ proc[j].pc = "done" /\ jobs[j].status = "completed"
    /\ pending = {}

\* C10: exporting a session's inventory and importing the exported
\* workbook into another session yields the same items: name, quantity,
\* sell list, buy list, averages and market URL, with the sentinels for an
\* absent slug, an empty list and an absent URL coming back as absent and
\* empty.
RoundTripPreserves ==
    \A j \in DOMAIN jobs :
        RoundTripDone(j) =>
            \A a \in Sessions \ {proc[j].session} :
                SameItems(getInventoryItems(inventory, a),
                          getInventoryItems(inventory, proc[j].session))

\* An item held with quantity 1.5 came back from the round trip with quantity 1
RoundTripTruncates ==
    \E j \in DOMAIN jobs :
        /\ RoundTripDone(j)
        /\ \E a \in Sessions \ {proc[j].session} :
              /\ Len(getInventoryItems(inventory, a)) =
                    Len(getInventoryItems(inventory, proc[j].session))
              /\ \E x \in StoredItems(inventory), y \in StoredItems(inventory) :
                    /\ HasItem(inventory, a, x.id)
                    /\ HasItem(inventory, proc[j].session, y.id)
                    /\ x.name = y.name
                    /\ x.quantity = OneAndAHalf /\ y.quantity = Whole(1)

\* The data rows of a source worksheet: the rows after the first that hold
\* a value
SourceDataRows(rows) ==
    SelectSeq([r \in 1..Len(rows) |-> IF r > 1 THEN rows[r] ELSE BlankRow],
              LAMBDA row : HasValues(row))

\* The integer the leading digits of a row's price cell spell, 0 without one
LeadingPrice(row) ==
    IF row[4] = EmptyCell THEN 0
    ELSE Whole(DigitsValue(DigitPrefix(CellText(row[4]).v), 0))

\* How often row stands in a list of rows
Count(list, row) == Cardinality({n \in 1..Len(list) : list[n] = row})

\* files is a partition of the data rows at the threshold of 10
IsPartition(rows, files) ==
    LET data == SourceDataRows(rows)
        low == Tail(files.lowPriceFile)
        high == Tail(files.highPriceFile)
    IN /\ \A n \in 1..Len(data) :
             /\ Count(low, data[n]) + Count(high, data[n]) = Count(data, data[n])
             /\ Count(low, data[n]) = 0 \/ Count(high, data[n]) = 0
       /\ Len(low) + Len(high) = Len(data)
       /\ \A n \in 1..Len(low) : LeadingPrice(low[n]) <= Whole(10)
       /\ \A n \in 1..Len(high) : LeadingPrice(high[n]) >= Whole(11)
       /\ files.lowCount = Len(low) /\ files.highCount = Len(high)
       /\ files.lowCount + files.highCount = Len(data)

NotOnMarket(name) ==
    \A item \in CatalogItems : normalizeString(item.name) # normalizeString(name)

\* The recognised entries of a job's images that carry the name
RecognisedAs(files, name) == SelectSeq(AllRecognised(files), LAMBDA item : item.name = name)

\* An image job has ended and no storage call has thrown
EndedWithoutFault(j) ==
    /\ proc[j].kind = "images" /\ proc[j].pc = "done"
    /\ faultsLeft = MaxFaults

\* The record the session of job j holds under the name is one that was
\* stored without market data
HeldWithoutMarketData(j, name) ==
    LET held == SelectSeq(getInventoryItems(inventory, proc[j].session),
                          LAMBDA item : item.name = name)
    IN /\ held # <<>>
       /\ \A n \in 1..Len(held) :
             /\ held[n].sellPrices = <<>> /\ held[n].buyPrices = <<>>
             /\ held[n].avgSell = 0 /\ held[n].avgBuy = 0
             /\ IsAbsent(held[n].marketUrl)

\* Every unmatched name an ended job recognised is held by its session
UnmatchedNamesHeld ==
    \A j \in DOMAIN proc :
        EndedWithoutFault(j) =>
            \A n \in 1..Len(AllRecognised(proc[j].files)) :
                NotOnMarket(AllRecognised(proc[j].files)[n].name) =>
                    HeldWithoutMarketData(j, AllRecognised(proc[j].files)[n].name)

\* C12: during ingestion, a recognised name with no catalog match always
\* results in a created inventory record with the aggregated quantity,
\* empty price lists, zero averages and no market URL; the lookup outcome
\* never prevents the record from being created.  Step by step: the lookup
\* of such a name (line 707) goes on to the create of line 723, that create,
\* when it returns (line 734 is next), has appended a record with the quantity aggregated over the job's images, and once the
\* job has ended without a storage fault the session holds the name.
UnmatchedNameIsCreated ==
    /\ []UnmatchedNamesHeld
    /\ [][\A j \in DOMAIN proc :
            LET p == proc[j]
                name == Entry(p).name
                before == getInventoryItems(inventory, p.session)
                after == getInventoryItems(inventory', p.session)
            IN (p.kind = "images" /\ NotOnMarket(name)) =>
                 /\ (p.pc = "L707" /\ proc'[j].pc # "L707") => proc'[j].pc = "L723"
                 /\ (p.pc = "L723" /\ proc'[j].pc = "L734") =>
                       /\ Len(after) = Len(before) + 1
                       /\ after[Len(after)].name = name
                       /\ after[Len(after)].quantity = Total(RecognisedAs(p.files, name))
                       /\ after[Len(after)].sellPrices = <<>>
                       /\ after[Len(after)].buyPrices = <<>>
                       /\ after[Len(after)].avgSell = 0 /\ after[Len(after)].avgBuy = 0
                       /\ IsAbsent(after[Len(after)].marketUrl)]_vars

\* A job that recognised "Zaw" in two images has ended and the session
\* holds Zaw with both quantities
ZawCreated ==
    \E j \in DOMAIN proc :
        /\ EndedWithoutFault(j)
        /\ Len(RecognisedAs(proc[j].files, Zaw)) = 2
        /\ \E item \in StoredItems(inventory) :
              /\ HasItem(inventory, proc[j].session, item.id)
              /\ item.name = Zaw /\ item.quantity = Whole(3)
              /\ item.slug = Null

\* The images of a job whose analysis throws
BadImages(files) == {i \in 1..Len(files) : files[i].throws}

\* The quantity a session holds of name before any job
SeededQuantity(s, name) == Total(SelectSeq(Seeds[s], LAMBDA item : item.name = name))

\* The session of job j holds name, reconciled with what the job recognised
Reconciled(j, name) ==
    LET total == Total(RecognisedAs(proc[j].files, name))
        before == SeededQuantity(proc[j].session, name)
    IN \E item \in StoredItems(inventory) :
          /\ HasItem(inventory, proc[j].session, item.id)
          /\ item.name = name
          /\ item.quantity = IF proc[j].mode = "edit" THEN before + total ELSE total

\* C13: a recognition failure on image i of a batch does not stop the
\* batch: every later image is still analysed, the items recognised in the
\* other images are still reconciled into the store, and the job still
\* ends completed.  The reconciliation of every aggregated name has run to
\* its end (line 738); where the job is the only one, the store is compared
\* with what the other images showed.
BadImageDoesNotStopBatch ==
    \A j \in DOMAIN proc :
        (EndedWithoutFault(j) /\ BadImages(proc[j].files) # {}) =>
            /\ proc[j].i = Len(proc[j].files)
            /\ proc[j].allItems = AllRecognised(proc[j].files)
            /\ \A i \in 1..Len(proc[j].files) \ BadImages(proc[j].files) :
                  jobs[j].processedImages >= i
            /\ proc[j].itemCounts = Aggregate(proc[j].allItems, <<>>)
            /\ proc[j].processedCount = Len(proc[j].itemCounts)
            /\ DOMAIN jobs = {j} =>
                  \A n \in 1..Len(proc[j].allItems) : Reconciled(j, proc[j].allItems[n].name)
            /\ jobs[j].status = "completed"

\* A job whose first image could not be analysed has completed, and the
\* session holds what the second image showed
BatchSurvivedBadImage ==
    \E j \in DOMAIN proc :
        /\ EndedWithoutFault(j)
        /\ BadImages(proc[j].files) = {1} /\ Len(proc[j].files) = 2
        /\ jobs[j].status = "completed" /\ jobs[j].processedImages = 2
        /\ Reconciled(j, FooBar) /\ Reconciled(j, Axi)

\* The calls of processImagesAsync that stand inside the try around one
\* image or the try around one item
InsidePerUnitTry == InImageTry \cup InItemTry

\* Job j's function has returned and none of its calls is in flight
Ended(j) == proc[j].pc = "done" /\ \A op \in pending : op.job # j

\* C14: an ingestion job ends failed only when an error escapes the
\* pipeline's outer structure; an error thrown while analysing one image or
\* while reconciling one item (find, update, lookup or create) never makes
\* the job failed, and the job then ends completed.
FailedOnlyWhenErrorEscapes ==
    \A j \in DOMAIN proc :
        proc[j].kind = "images" =>
            /\ jobs[j].status = "failed" => ~(proc[j].thrownAt \subseteq InsidePerUnitTry)
            /\ (Ended(j) /\ proc[j].thrownAt \subseteq InsidePerUnitTry) =>
                    jobs[j].status = "completed"

\* A job has completed although an image's analysis threw and a store
\* call of an item's reconciliation threw
CompletedAfterCaughtErrors ==
    \E j \in DOMAIN proc :
        /\ proc[j].kind = "images" /\ Ended(j)
        /\ proc[j].thrownAt \cap InImageTry # {}
        /\ proc[j].thrownAt \cap InItemTry # {}
        /\ proc[j].thrownAt \subseteq InsidePerUnitTry
        /\ jobs[j].status = "completed"

\* The routes that start a job
JobRoutes == {"add-screenshots", "process-online", "load-excel", "update-prices", "split-excel"}

\* The request of this step is a submit without its images or its file
SubmitWithoutFile ==
    \E sessionId \in Sessions :
        \/ AddScreenshots(sessionId, <<>>)
        \/ ProcessOnline(sessionId, <<>>)
        \/ LoadExcel(sessionId, Workbook("none", <<>>))
        \/ UpdatePrices(sessionId, Workbook("none", <<>>))
        \/ SplitExcel(sessionId, Workbook("none", <<>>))

\* The request of this step is a quantity edit with a negative quantity
NegativeEdit ==
    \E sessionId \in Sessions, id \in 1..nextId, quantity \in ValidateQuantities :
        quantity < 0 /\ PatchQuantity(sessionId, id, quantity)

\* C15: validation errors are rejected before any state changes: a submit
\* request with an empty image batch or without a spreadsheet file creates
\* no job record, and a quantity edit with a negative quantity is rejected
\* and leaves the item's stored quantity unchanged.
ValidationBeforeStateChange ==
    [][/\ SubmitWithoutFile =>
            (resp'.status = 400 /\ jobs' = jobs /\ proc' = proc /\ pending' = pending)
       /\ NegativeEdit =>
            (resp'.status = 400 /\ resp'.route = "quantity" /\ inventory' = inventory)
       /\ (resp' # resp /\ resp'.status = 400 /\ resp'.route \in JobRoutes \cup {"quantity"}) =>
            (jobs' = jobs /\ inventory' = inventory)]_vars

\* A negative quantity edit has been turned down and a submit without file
\* before it created no job: the sessions hold what they held
RejectedAndUnchanged ==
    /\ resp = Reply("quantity", "s1", 400)
    /\ inventory = SessionSeeds
    /\ jobs = <<>>

\* C16: every job created by a job-starting request eventually reaches
\* status completed or failed, provided every external call (recognition,
\* price lookup, store operation) eventually returns or throws; no job
\* stays in processing forever.
EveryJobEnds ==
    \A j \in 1..MaxJobs :
        (j \in DOMAIN jobs) ~> (j \in DOMAIN jobs /\ Terminal(jobs[j].status))

\* The function of a job has returned, no call of it is under way, and the
\* job is still processing
StuckInProcessing ==
    \E j \in DOMAIN jobs : Ended(j) /\ jobs[j].status = "processing"

\* C17: when an ingestion or price-refresh job is observed with status
\* completed, its processedItems equals its totalItems, also when some
\* items were skipped because their reconciliation step threw.
CompletedCountsEveryItem ==
    \A j \in DOMAIN jobs :
        (Observable /\ proc[j].kind \in {"images", "prices"} /\ jobs[j].status = "completed")
            => jobs[j].processedItems = jobs[j].totalItems

\* An ingestion job has completed after the reconciliation of an item
\* threw, with fewer items processed than its total
SkippedItemNotCounted ==
    \E j \in DOMAIN jobs :
        /\ proc[j].kind = "images" /\ Ended(j) /\ jobs[j].status = "completed"
        /\ proc[j].thrownAt # {} /\ proc[j].thrownAt \subseteq InItemTry
        /\ jobs[j].processedItems < jobs[j].totalItems

\* The lines that report the error a job failed with: those of the
\* functions' outer catch clauses (547, 644, 816) and of the routes' .catch
FailureTexts ==
    {"Error", "Error updating prices", "Error splitting Excel", "Error loading Excel file"}

\* The log of job j holds a line with the message of the error it met
HasErrorLine(j) ==
    \E n \in 1..Len(jobs[j].logs) :
        jobs[j].logs[n].text \in FailureTexts /\ jobs[j].logs[n].err = proc[j].error

\* C18: whenever a poll observes a job with status failed, that job's log
\* already contains a line carrying the message of the error that made it
\* fail.
FailedHasErrorLine ==
    \A j \in DOMAIN jobs : (Observable /\ jobs[j].status = "failed") => HasErrorLine(j)

\* A poll finds an ingestion job failed while the call that appends the
\* error line is still under way
FailedBeforeErrorLine ==
    \E j \in DOMAIN jobs :
        /\ Observable /\ proc[j].kind = "images" /\ jobs[j].status = "failed"
        /\ ~HasErrorLine(j)
        /\ \E op \in pending : op.job = j /\ op.op = "log" /\ op.log.err = proc[j].error

\* No item of session s carries the id
AbsentFrom(s, id) == \A n \in 1..Len(inventory[s]) : inventory[s][n].id # id

\* C19: updateQuantity with an id that is absent from the caller's session
\* (including an id that exists only in another session) fails with a
\* not-found error and changes no item in any session.
AbsentIdChangesNothing ==
    [][\A sessionId \in Sessions, id \in 1..nextId, quantity \in SessionQuantities :
          (AbsentFrom(sessionId, id) /\ PatchQuantity(sessionId, id, quantity)) =>
              (resp' = Reply("quantity", sessionId, 500) /\ inventory' = inventory)]_vars

\* A quantity edit of session s1 was refused while the other session
\* holds an item and session s1 holds what it held
EditOfForeignIdRefused ==
    /\ resp = Reply("quantity", "s1", 500)
    /\ \E id \in 1..nextId : AbsentFrom("s1", id) /\ ~AbsentFrom("s2", id)
    /\ inventory = SessionSeeds

\* How many entries of a sequence of items carry the name
Named(items, name) == Cardinality({n \in 1..Len(items) : items[n].name = name})

\* The session of load job j holds one record for every named data row of
\* its document, and nothing it held before the job
ExactlyTheRows(j) ==
    LET rows == LoadedItems(proc[j].excelFile.rows)
        held == getInventoryItems(inventory, proc[j].session)
    IN /\ Len(held) = Len(rows)
       /\ \A n \in 1..Len(rows) : Named(held, rows[n].name) = Named(rows, rows[n].name)
       /\ \A n \in 1..Len(held) : held[n] \notin StoredItems(Seeds)

\* No createInventoryItem call of job j is under way
InsertionsFinished(j) == \A op \in pending : ~(op.op = "create" /\ op.job = j)

\* C20: when a spreadsheet-load job is observed with status completed, the
\* session's inventory holds exactly one record for every named data row of
\* the uploaded document and no item that was in the session before the
\* job; the insertions are all finished before the status becomes
\* completed.
LoadCompletedHoldsRows ==
    \A j \in DOMAIN jobs :
        (Observable /\ proc[j].kind = "load" /\ jobs[j].status = "completed")
            => (ExactlyTheRows(j) /\ InsertionsFinished(j))

\* A poll finds a load job completed while an insertion is under way and
\* the session holds fewer records than the document has named rows,
\* although no call has thrown
CompletedWhileInserting ==
    \E j \in DOMAIN jobs :
        /\ Observable /\ proc[j].kind = "load" /\ jobs[j].status = "completed"
        /\ faultsLeft = MaxFaults
        /\ ~InsertionsFinished(j)
        /\ Len(getInventoryItems(inventory, proc[j].session))
              < Len(LoadedItems(proc[j].excelFile.rows))

\* What the jobs of session s among js recognised in all
RecognisedBy(s, js) ==
    Sum([n \in 1..Len(RanJobs(s)) |->
            IF RanJobs(s)[n] \in js THEN Total(AllRecognised(proc[RanJobs(s)[n]].files))
            ELSE 0])

\* The jobs started for session s, as a set
JobsOf(s) == {RanJobs(s)[n] : n \in 1..Len(RanJobs(s))}

\* C21: two merge-mode jobs running at the same time on one session that
\* both recognise the same existing item can interleave their
\* find-then-updateQuantity steps so that the item's final quantity is less
\* than its initial quantity plus both recognised quantities (a lost update
\* is reachable).  What every interleaving keeps: the item is held once, and
\* its final quantity is the initial one plus what some of the jobs
\* recognised, the job that wrote last among them; MemStorage, whose find
\* and update run in one turn, loses nothing.
LostUpdateLosesWholeJobs ==
    \A s \in Sessions :
        (MergedOnly(s) /\ Seeds[s] # <<>>) =>
            /\ Len(Held(s)) = 1
            /\ Held(s)[1].name = Axi
            /\ \E js \in SUBSET JobsOf(s) \ {{}} :
                  Held(s)[1].quantity = Total(Seeds[s]) + RecognisedBy(s, js)
            /\ backend = "mem" => Held(s)[1].quantity = Total(Seeds[s]) + RecognisedIn(s)

\* Two merge-mode jobs of one session have completed and the item holds
\* less than what it held plus what both recognised
LostUpdate ==
    \E s \in Sessions :
        /\ MergedOnly(s) /\ Seeds[s] # <<>>
        /\ Len(RanJobs(s)) = 2
        /\ Held(s)[1].quantity < Total(Seeds[s]) + RecognisedIn(s)

\* The caches a completed loadItemsCache() leaves, and the empty Map
CompleteCaches == {LoadedCache(items) : items \in Catalogs \cup {{}}}

AtMatchedName(j, pc) ==
    proc[j].kind = "images" /\ proc[j].pc = pc /\ proc[j].slug # Null

\* C23: when the catalog has a match for a name but the price-statistics
\* call fails (network error or non-OK response), the adapter returns
\* not-found instead of throwing, and ingestion creates the item with zero
\* price fields and no market URL and continues with the next item.  Step
\* by step: the price call (line 119) that gives null throws nothing and
\* leads to the create of line 723; that create, when it returns, has
\* appended the record; the log of line 734 leads to the count of line 738.
FailedPriceCallIsNotFound ==
    [][\A j \in DOMAIN proc :
          LET p == proc[j]
              before == getInventoryItems(inventory, p.session)
              after == getInventoryItems(inventory', p.session)
          IN /\ (AtMatchedName(j, "L119") /\ proc'[j].pc # "L119" /\ proc'[j].marketData = Null) =>
                    (proc'[j].pc = "L723" /\ proc'[j].thrownAt = p.thrownAt)
             /\ (AtMatchedName(j, "L723") /\ proc'[j].pc = "L734") =>
                    /\ p.marketData = Null
                    /\ Len(after) = Len(before) + 1
                    /\ after[Len(after)].name = Entry(p).name
                    /\ after[Len(after)].quantity = Entry(p).quantity
                    /\ after[Len(after)].sellPrices = <<>>
                    /\ after[Len(after)].buyPrices = <<>>
                    /\ after[Len(after)].avgSell = 0 /\ after[Len(after)].avgBuy = 0
                    /\ IsAbsent(after[Len(after)].marketUrl)
             /\ (AtMatchedName(j, "L734") /\ proc'[j].pc \notin {"L734", "L741", "done"}) =>
                    (proc'[j].pc = "L739" /\ proc'[j].processedCount = p.processedCount + 1)]_vars

\* A job has completed whose first name the catalog lists, whose price call
\* failed, and whose session holds both its names, the first without market
\* data
CreatedAfterFailedPriceCall ==
    \E j \in DOMAIN proc :
        /\ EndedWithoutFault(j) /\ jobs[j].status = "completed"
        /\ Len(proc[j].itemCounts) = 2 /\ jobs[j].processedItems = 2
        /\ \E item \in StoredItems(inventory) :
              /\ HasItem(inventory, proc[j].session, item.id)
              /\ item.name = proc[j].itemCounts[1].name
              /\ findItemSlug(itemsCache, item.name) # Null
              /\ item.slug = Null /\ IsAbsent(item.marketUrl) /\ item.avgSell = 0

\* counts has one entry per distinct exact name of items, with the sum of
\* the quantities of the pairs of that name
IsAggregateOf(counts, items) ==
    /\ \A a, b \in 1..Len(counts) : counts[a].name = counts[b].name => a = b
    /\ {counts[n].name : n \in 1..Len(counts)} = {items[n].name : n \in 1..Len(items)}
    /\ \A n \in 1..Len(counts) :
          counts[n].quantity =
              Total(SelectSeq(items, LAMBDA item : item.name = counts[n].name))

\* The lines of processImagesAsync before the aggregation, and those whose
\* throw ends the function before it
BeforeAggregation == {"idle", "L650", "L657", "L661", "L664", "L665", "L667"}

\* The function of image job j has got past the aggregation of line 675
Aggregated(j) ==
    /\ proc[j].kind = "images"
    /\ proc[j].pc \notin BeforeAggregation
    /\ proc[j].thrownAt \cap {"L650", "L657", "L667"} = {}

\* The pairs recognised in the images of a job that were analysed
RecognisedInGood(files) ==
    AllRecognised(SelectSeq(files, LAMBDA file : ~file.throws))

\* C24: aggregation groups by the exact recognised string: the aggregate
\* has one entry per distinct exact name whose quantity is the sum of the
\* quantities of all pairs with that exact name across all successfully
\* analysed images, names that differ only in case or surrounding
\* whitespace stay separate entries, and totalItems is set to the number of
\* entries.
AggregatesByExactName ==
    \A j \in DOMAIN proc :
        Aggregated(j) =>
            /\ IsAggregateOf(proc[j].itemCounts, RecognisedInGood(proc[j].files))
            /\ (proc[j].pc # "L677" /\ "L677" \notin proc[j].thrownAt) =>
                  jobs[j].totalItems = Len(proc[j].itemCounts)

\* A job whose images showed "Axi" twice and "axi" once counts two items:
\* Axi with the sum of its two quantities, axi on its own
AxiAndAxiLowerApart ==
    \E j \in DOMAIN proc :
        /\ Aggregated(j) /\ proc[j].pc = "L682"
        /\ proc[j].itemCounts = <<[name |-> Axi, quantity |-> Whole(3)],
                                   [name |-> axiLower, quantity |-> Whole(2)]>>
        /\ jobs[j].totalItems = 2

\* What the result of a normalizer that does what C25 says must be like:
\* no capital letter, no white space at either end unless a colon ends the
\* text, no two white-space characters in a row, a space after every colon
\* and none before a colon that follows a letter
IsNormalForm(r) ==
    /\ r = toLowerCase(r)
    /\ r # <<>> => ~IsSpace(r[1])
    /\ \A i \in 1..Len(r) - 1 : ~(IsSpace(r[i]) /\ IsSpace(r[i + 1]))
    /\ \A i \in 1..Len(r) : r[i] = ":" => (i < Len(r) /\ IsSpace(r[i + 1]))
    /\ \A i \in 3..Len(r) : (r[i] = ":" /\ IsSpace(r[i - 1])) => r[i - 2] = ":"

\* C25: the name normalizer returns, for every input string, the
\* lowercased string with leading and trailing whitespace removed, every
\* run of internal whitespace collapsed to one space, and the spacing
\* around every colon standardised, and returns the empty string for empty
\* input.
NormalizerNormalizesAll ==
    resp.route = "normalizeString" =>
        /\ IsNormalForm(resp.result)
        /\ resp.text = <<>> => resp.result = <<>>

\* "x x  x" comes back with its second run of white space as it was
SecondRunKept ==
    /\ resp.route = "normalizeString"
    /\ resp.text = <<"X", " ", "X", " ", " ", "X">>
    /\ resp.result = <<"x", " ", "x", " ", " ", "x">>

\* C26: in every state reachable by ingestion jobs alone on a session that
\* started empty, in any mode and for any interleaving of jobs of that
\* session, no two inventory records of the session have names that are
\* equal after lowercasing and trimming.
NoTwoRecordsOfOneName ==
    \A s \in Sessions :
        Seeds[s] = <<>> =>
            \A a, b \in 1..Len(inventory[s]) :
                trim(toLowerCase(inventory[s][a].name)) = trim(toLowerCase(inventory[s][b].name))
                    => a = b

\* Under MemStorage two jobs of a session that started empty have completed
\* and the session holds two records named Axi
AxiHeldTwice ==
    \E s \in Sessions :
        /\ backend = "mem" /\ Seeds[s] = <<>>
        /\ Len(RanJobs(s)) = 2
        /\ \A n \in 1..2 : proc[RanJobs(s)[n]].pc = "done"
                            /\ jobs[RanJobs(s)[n]].status = "completed"
        /\ Len(inventory[s]) = 2
        /\ \A n \in 1..2 : inventory[s][n].name = Axi

\* The lines of splitExcelByPriceAsync before the cache is written (633)
BeforeCacheWrite == {"L553", "L556", "L559", "L621", "L626", "L629", "L630"}

\* The split jobs of session s that have written their outputs to the cache
FinishedSplits(s) ==
    {j \in DOMAIN proc : /\ proc[j].kind = "split" /\ proc[j].session = s
                         /\ proc[j].pc \notin BeforeCacheWrite
                         /\ proc[j].thrownAt \cap BeforeCacheWrite = {}}

\* The files a download of session s may carry
DownloadsOf(s) ==
    {splitFileCache[s].lowPriceFile, splitFileCache[s].highPriceFile}

CountersNeverGoBack ==
    [][\A j \in DOMAIN jobs :
          (Observable /\ Observable') =>
              /\ jobs'[j].processedImages >= jobs[j].processedImages
              /\ jobs'[j].processedItems >= jobs[j].processedItems]_vars

\* A load job under PostgresStorage whose poll shows fewer loaded items than
\* its insertions have counted while no counter write is in flight any more:
\* the write of the larger count took effect before that of a smaller one
CounterWentBack ==
    \E j \in DOMAIN jobs :
        /\ backend = "pg" /\ proc[j].kind = "load" /\ Observable
        /\ faultsLeft = MaxFaults
        /\ ~\E op \in pending : op.job = j /\ op.op = "update"
        /\ proc[j].loadedCount >= 2
        /\ jobs[j].processedItems < proc[j].loadedCount

\* Job j is an image job that ran alone on a session that held nothing, has
\* completed, and none of its images or item steps failed
RanAloneUnfailed(j) ==
    /\ DOMAIN jobs = {j}
    /\ proc[j].kind = "images" /\ Seeds[proc[j].session] = <<>>
    /\ proc[j].pc = "done" /\ jobs[j].status = "completed"
    /\ proc[j].thrownAt = {}
    /\ \A n \in 1..Len(proc[j].files) : ~proc[j].files[n].throws
    /\ faultsLeft = MaxFaults

\* C29: no recognised unit is lost inside one job: for one ingestion job
\* run alone on an initially empty session, in any mode, with no image or
\* item step failing, the sum of the quantities stored in the session when
\* the job completes equals the sum of all quantities recognised across its
\* images.
NoRecognisedUnitLost ==
    \A j \in DOMAIN jobs :
        RanAloneUnfailed(j) =>
            Total(Held(proc[j].session)) = Total(AllRecognised(proc[j].files))

\* A replace-mode job under MemStorage recognised Axi three times over and
\* axi twice, and the session holds one record of quantity 2
AxiOverwrittenByAxiLower ==
    \E j \in DOMAIN jobs :
        /\ RanAloneUnfailed(j) /\ backend = "mem" /\ proc[j].mode # "edit"
        /\ Total(AllRecognised(proc[j].files)) = Whole(5)
        /\ Held(proc[j].session) = <<[name |-> Axi, quantity |-> Whole(2)]>>

\* The items session s holds, as a set
ItemsOf(inv, s) == {inv[s][n] : n \in 1..Len(inv[s])}

\* C30: a failed spreadsheet job leaves the inventory untouched: if a
\* spreadsheet-load or price-refresh job ends with status failed (for
\* example because the uploaded document cannot be parsed or has no
\* worksheet), the session's inventory is the same set of items as before
\* the job started.
FailedSpreadsheetJobKeepsInventory ==
    \A j \in DOMAIN jobs :
        (/\ DOMAIN jobs = {j}
         /\ proc[j].kind \in {"load", "prices"}
         /\ jobs[j].status = "failed") =>
            ItemsOf(inventory, proc[j].session) = ItemsOf(Seeds, proc[j].session)

\* A load job of a document that cannot be parsed has failed at the
\* workbook load without any storage call failing, and the session that
\* held Axi holds nothing
ClearedThenFailed ==
    \E j \in DOMAIN jobs :
        /\ DOMAIN jobs = {j} /\ faultsLeft = MaxFaults
        /\ proc[j].kind = "load" /\ proc[j].excelFile.kind = "corrupt"
        /\ proc[j].thrownAt = {"L760"}
        /\ proc[j].pc = "done" /\ jobs[j].status = "failed"
        /\ Seeds[proc[j].session] # <<>>
        /\ inventory[proc[j].session] = <<>>

====
